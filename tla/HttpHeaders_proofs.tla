------------------------- MODULE HttpHeaders_proofs --------------------------
(***************************************************************************)
(* Proofs about HttpHeaders, for any URLs and any bound on redirects.  The *)
(* invariant adds to the properties how many requests there are for the    *)
(* hops followed: one more while a response is awaited and when one has    *)
(* been reported, as many while a check is.                                *)
(***************************************************************************)
EXTENDS HttpHeaders, TLAPS

Asked == Len(requested) = Len(redirects) + 1 /\ requested[Len(requested)] = current

Hops ==
  /\ phase \in {"idle", "checking"} => Len(requested) = Len(redirects)
  /\ phase \in {"fetching", "answered"} => Asked
  /\ phase = "rejected" => Len(requested) = Len(redirects) \/ Asked
  /\ Len(redirects) <= MaxRedirects

Joined ==
  \A n \in DOMAIN redirects :
    /\ redirects[n].location \in Urls
    /\ redirects[n].url = requested[n]
    /\ redirects[n].location = (IF n < Len(requested) THEN requested[n + 1] ELSE current)

Inv == TypeOK /\ Hops /\ Joined /\ EveryRequestWasChecked

LEMMA InitInv == Init => Inv
<1> SUFFICES ASSUME Init PROVE Inv
  OBVIOUS
<1>1. TypeOK
  BY HttpAssumption DEF HttpAssumption, Init, TypeOK, NoResponse, Responses
<1>2. Hops /\ Joined /\ EveryRequestWasChecked
  BY HttpAssumption DEF HttpAssumption, Init, Hops, Joined, EveryRequestWasChecked
<1> QED
  BY <1>1, <1>2 DEF Inv

(* A rejection changes nothing but the phase and the reason. *)
LEMMA RejectInv ==
  ASSUME Inv, NEW why \in {"invalid_input", "refused", "timeout", "upstream_error", "raw"}, Reject(why)
  PROVE  Inv'
<1> USE DEF Inv, Reject
<1>1. TypeOK'
  BY DEF TypeOK
<1>2. Hops'
  BY DEF Hops, Asked, TypeOK
<1>3. Joined' /\ EveryRequestWasChecked'
  BY DEF Joined, EveryRequestWasChecked
<1> QED
  BY <1>1, <1>2, <1>3

(* A checked request is made for the URL of the hop. *)
LEMMA CheckInv ==
  ASSUME Inv, Check
  PROVE  Inv'
<1>1. CASE checks /\ Reject("refused")
  BY <1>1, RejectInv
<1>2. CASE /\ allowed' = (IF checks THEN Append(allowed, current) ELSE allowed)
           /\ requested' = Append(requested, current)
           /\ phase' = "fetching"
           /\ UNCHANGED <<checks, current, redirects, response, reason>>
  <2> USE <1>2 DEF Inv, TypeOK
  <2>1. TypeOK'
    OBVIOUS
  <2>2. Len(requested) = Len(redirects)
    BY DEF Check, Hops
  <2>3. Len(requested') = Len(requested) + 1 /\ requested'[Len(requested')] = current
    OBVIOUS
  <2>4. Hops'
    BY <2>2, <2>3 DEF Hops, Asked
  <2>5. Joined'
    BY <2>2, <2>3 DEF Joined
  <2>6. EveryRequestWasChecked'
    BY DEF EveryRequestWasChecked
  <2> QED
    BY <2>1, <2>4, <2>5, <2>6
<1> QED
  BY <1>1, <1>2 DEF Check

(* A redirect goes on from the URL that was requested last. *)
LEMMA FollowInv ==
  ASSUME Inv, phase = "fetching", HopsLeft,
         NEW r \in Responses, r.location \in Urls, Follow(r)
  PROVE  Inv'
<1> USE DEF Inv, Follow
<1>1. TypeOK'
  BY DEF TypeOK
<1>2. Asked /\ Len(redirects) \in Nat
  BY DEF Hops, TypeOK
<1>3. /\ Len(redirects') = Len(redirects) + 1
      /\ \A n \in DOMAIN redirects : n \in DOMAIN redirects' /\ redirects'[n] = redirects[n]
      /\ redirects'[Len(redirects')] = [url |-> current, location |-> r.location]
      /\ DOMAIN redirects' = DOMAIN redirects \cup {Len(redirects')}
  BY DEF TypeOK
<1>4. Hops'
  BY <1>2, <1>3, HttpAssumption DEF Hops, HopsLeft, Asked, HttpAssumption, TypeOK
<1>5. Joined'
  <2>1. SUFFICES ASSUME NEW n \in DOMAIN redirects'
                 PROVE  /\ redirects'[n].location \in Urls
                        /\ redirects'[n].url = requested[n]
                        /\ redirects'[n].location =
                             (IF n < Len(requested) THEN requested[n + 1] ELSE r.location)
    BY DEF Joined
  <2>2. CASE n \in DOMAIN redirects
    <3>1. n < Len(requested)
      BY <1>2, <2>2 DEF Asked, TypeOK
    <3> QED
      BY <1>3, <2>2, <3>1 DEF Joined
  <2>3. CASE n = Len(redirects')
    BY <1>2, <1>3, <2>3 DEF Asked
  <2> QED
    BY <1>3, <2>2, <2>3
<1>6. EveryRequestWasChecked'
  BY DEF EveryRequestWasChecked
<1> QED
  BY <1>1, <1>4, <1>5, <1>6

LEMMA RespondInv ==
  ASSUME Inv, Respond
  PROVE  Inv'
<1>1. PICK r \in Responses :
        IF r.follow /\ r.location # NoLocation /\ HopsLeft
        THEN IF Resolves(r.location) THEN Follow(r) ELSE Reject("raw")
        ELSE /\ phase' = "answered"
             /\ response' = r
             /\ UNCHANGED <<checks, current, redirects, reason, allowed, requested>>
  BY DEF Respond
<1>2. CASE r.follow /\ r.location # NoLocation /\ HopsLeft /\ Resolves(r.location)
  <2>1. r.location \in Urls
    BY <1>2 DEF Resolves, Responses
  <2> QED
    BY <1>1, <1>2, <2>1, FollowInv DEF Respond
<1>3. CASE r.follow /\ r.location # NoLocation /\ HopsLeft /\ ~Resolves(r.location)
  BY <1>1, <1>3, RejectInv
<1>4. CASE ~(r.follow /\ r.location # NoLocation /\ HopsLeft)
  <2> USE <1>1, <1>4 DEF Inv
  <2>1. TypeOK'
    BY DEF TypeOK
  <2>2. Hops'
    BY DEF Hops, Asked, Respond
  <2>3. Joined' /\ EveryRequestWasChecked'
    BY DEF Joined, EveryRequestWasChecked
  <2> QED
    BY <2>1, <2>2, <2>3
<1> QED
  BY <1>2, <1>3, <1>4

LEMMA NextInv == Inv /\ [Next]_vars => Inv'
<1> SUFFICES ASSUME Inv, [Next]_vars PROVE Inv'
  OBVIOUS
<1>1. CASE Call
  <2>1. CASE Reject("invalid_input")
    BY <2>1, RejectInv
  <2>2. CASE /\ phase' = "checking"
             /\ UNCHANGED <<checks, current, redirects, response, reason, allowed, requested>>
    BY <1>1, <2>2 DEF Call, Inv, TypeOK, Hops, Joined, EveryRequestWasChecked
  <2> QED
    BY <1>1, <2>1, <2>2 DEF Call
<1>2. CASE Check
  BY <1>2, CheckInv
<1>3. CASE FetchFails
  BY <1>3, RejectInv DEF FetchFails
<1>4. CASE Respond
  BY <1>4, RespondInv
<1>5. CASE UNCHANGED vars
  BY <1>5 DEF vars, Inv, TypeOK, Hops, Asked, Joined, EveryRequestWasChecked
<1> QED
  BY <1>1, <1>2, <1>3, <1>4, <1>5 DEF Next

THEOREM Invariance == Spec => []Inv
  BY InitInv, NextInv, PTL DEF Spec

-----------------------------------------------------------------------------
(* The variables of checkHttpHeaders keep their types; a hop is always a   *)
(* URL, although a server may name anything as its location.               *)
THEOREM Typing == Spec => []TypeOK
  BY Invariance, PTL DEF Inv

(* No request is made, first or after a redirect, whose own URL the        *)
(* injected check has not let through.                                     *)
THEOREM Checked == Spec => []EveryRequestWasChecked
  BY Invariance, PTL DEF Inv

(* The redirects reported join up, over chains of any length and shape.    *)
THEOREM Chain == Spec => []RedirectsAreTheChain
<1>1. Inv => RedirectsAreTheChain
  BY DEF Inv, Joined, Hops, Asked, RedirectsAreTheChain
<1> QED
  BY <1>1, Invariance, PTL

(* Every chain is cut off, at one request more than the redirects allowed. *)
THEOREM Bounded == Spec => []RequestsAreBounded
<1>1. Inv => RequestsAreBounded
  BY HttpAssumption DEF HttpAssumption, Inv, Hops, Asked, TypeOK, RequestsAreBounded
<1> QED
  BY <1>1, Invariance, PTL
=============================================================================
