---------------------------- MODULE HttpHeaders -----------------------------
(***************************************************************************)
(* checkHttpHeaders (http/headers.ts): a URL is fetched and its redirects  *)
(* are followed by hand.  Each hop awaits assertAllowed, the check that    *)
(* the caller injects, and then the response.  Servers and the check may   *)
(* say anything at every hop, so a chain may loop or never end.            *)
(***************************************************************************)
EXTENDS Integers, Sequences

CONSTANTS
  Urls,
  NoLocation,    \* no location header
  BadLocation,   \* a location header that is no URL
  MaxRedirects   \* MAX_REDIRECTS, 10

ASSUME HttpAssumption ==
  /\ {NoLocation, BadLocation} \cap Urls = {}
  /\ MaxRedirects \in Nat

(* `follow': the status is 3xx; a location may come with any status.       *)
Responses == [follow : BOOLEAN, location : Urls \cup {NoLocation, BadLocation}]

VARIABLES
  checks,      \* whether the caller has injected assertAllowed
  phase,       \* what the call awaits, or how it has ended
  current,     \* the URL of the hop
  redirects,   \* the hops followed
  response,    \* the response reported
  reason,      \* what the call is rejected with
  allowed,     \* the URLs that passed the check, in order (history)
  requested    \* the URLs requested, in order (history)

vars == <<checks, phase, current, redirects, response, reason, allowed, requested>>

NoResponse == [follow |-> FALSE, location |-> NoLocation]

TypeOK ==
  /\ checks \in BOOLEAN
  /\ phase \in {"idle", "checking", "fetching", "answered", "rejected"}
  /\ current \in Urls
  /\ redirects \in Seq([url : Urls, location : Urls])
  /\ response \in Responses
  /\ reason \in {"none", "invalid_input", "refused", "timeout", "upstream_error", "raw"}
  /\ allowed \in Seq(Urls) /\ requested \in Seq(Urls)

Init ==
  /\ checks \in BOOLEAN
  /\ phase = "idle"
  /\ current \in Urls
  /\ redirects = <<>>
  /\ response = NoResponse
  /\ reason = "none"
  /\ allowed = <<>> /\ requested = <<>>

-----------------------------------------------------------------------------

Reject(why) ==
  /\ phase' = "rejected"
  /\ reason' = why
  /\ UNCHANGED <<checks, current, redirects, response, allowed, requested>>

(* normalizeUrl throws, or the first hop begins. *)
Call ==
  /\ phase = "idle"
  /\ \/ Reject("invalid_input")
     \/ /\ phase' = "checking"
        /\ UNCHANGED <<checks, current, redirects, response, reason, allowed, requested>>

(* The check is awaited before the request; what it throws is passed on.   *)
Check ==
  /\ phase = "checking"
  /\ \/ checks /\ Reject("refused")
     \/ /\ allowed' = IF checks THEN Append(allowed, current) ELSE allowed
        /\ requested' = Append(requested, current)
        /\ phase' = "fetching"
        /\ UNCHANGED <<checks, current, redirects, response, reason>>

FetchFails ==
  /\ phase = "fetching"
  /\ \E why \in {"timeout", "upstream_error"} : Reject(why)

Follow_Unchecked(r) ==
  /\ redirects' = Append(redirects, [url |-> current, location |-> r.location])
  /\ current' = r.location
  /\ requested' = Append(requested, r.location)
  /\ UNCHANGED <<checks, phase, response, reason, allowed>>

Follow_FromStart(r) ==
  /\ redirects' = Append(redirects, [url |-> requested[1], location |-> r.location])
  /\ phase' = "checking" /\ current' = r.location
  /\ UNCHANGED <<checks, response, reason, allowed, requested>>

Follow(r) ==
  /\ redirects' = Append(redirects, [url |-> current, location |-> r.location])
  /\ phase' = "checking" /\ current' = r.location
  /\ UNCHANGED <<checks, response, reason, allowed, requested>>

(* The redirect is followed while hops are left; the response to the last  *)
(* hop is reported whatever it is, so the throw after the loop is never    *)
(* reached.                                                                *)
HopsLeft_OneMore == Len(redirects) <= MaxRedirects
HopsLeft == Len(redirects) < MaxRedirects

(* new URL(location, current), outside the try *)
Resolves(l) == l # BadLocation

Respond ==
  /\ phase = "fetching"
  /\ \E r \in Responses :
       IF r.follow /\ r.location # NoLocation /\ HopsLeft
       THEN IF Resolves(r.location) THEN Follow(r) ELSE Reject("raw")
       ELSE /\ phase' = "answered"
            /\ response' = r
            /\ UNCHANGED <<checks, current, redirects, reason, allowed, requested>>

Next == Call \/ Check \/ FetchFails \/ Respond

Spec == Init /\ [][Next]_vars

-----------------------------------------------------------------------------

(* Every request of the chain, the first and those of redirects, was let   *)
(* through by a check of its own URL made since the request before it.     *)
EveryRequestWasChecked ==
  checks => requested = allowed

(* The redirects reported are the chain that was followed: each starts     *)
(* where the one before it led, to a URL, and the last leads to the final  *)
(* URL.                                                                    *)
RedirectsAreTheChain ==
  /\ \A n \in DOMAIN redirects :
       /\ redirects[n].location \in Urls
       /\ redirects[n].url = requested[n]
       /\ redirects[n].location = (IF n < Len(requested) THEN requested[n + 1] ELSE current)
  /\ phase = "answered" => current = requested[Len(requested)]

(* No chain, looping ones included, makes more requests than the redirects *)
(* allowed and the first.                                                  *)
RequestsAreBounded == Len(requested) <= MaxRedirects + 1

(* The error after the loop of checkHttpHeaders: a chain of more than      *)
(* MAX_REDIRECTS redirects is rejected, so that what is reported is the    *)
(* end of the chain.                                                       *)
TooManyRedirectsAreRejected ==
  phase = "answered" => ~(response.follow /\ response.location \in Urls)

=============================================================================
