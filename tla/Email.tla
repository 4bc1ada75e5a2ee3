-------------------------------- MODULE Email --------------------------------
(***************************************************************************)
(* checkEmailDeliverability (email/deliverability.ts): four checks of a    *)
(* domain run at once and are rolled up into one list of warnings.  SPF is *)
(* the walk of SpfWalk.  A failed lookup of MX, SPF or DMARC fails the     *)
(* whole report; the three requests of the MTA-STS check are each caught   *)
(* and then look like absence.  The records are those that parsing tells   *)
(* apart.                                                                  *)
(***************************************************************************)
EXTENDS SpfWalk

CONSTANTS
  Failed,     \* the query or the fetch rejects
  Situations  \* what a domain may publish, and which requests may fail

Legs == {"mx", "dmarc", "mtaSts"}

(* The answers to the requests.  An answer that has no records, whatever   *)
(* its rcode, is <<>>.                                                     *)
MxAnswers == {<<>>, <<"null">>, <<"host">>}
DmarcTexts == {"unrelated", "p=none", "p=reject", "no p"}
StsTexts == {"unrelated", "no id", "id"}
PolicyFiles == {"empty", "no version", "enforce", "testing"}

Answers ==
  [mx : MxAnswers \cup {Failed},
   dmarc : Seq(DmarcTexts) \cup {Failed},
   sts : Seq(StsTexts) \cup {Failed},
   policy : PolicyFiles \cup {Failed}]

ASSUME EmailAssumption ==
  \A s \in Situations :
    /\ s.policies \in [Domains -> Policies \cup {NoPolicy}]
    /\ s.answers \in Answers

VARIABLES
  answers,   \* what the requests of this report will be answered with
  settled,   \* the checks other than SPF that have settled
  report,    \* "pending", "rejected" or "given"
  warnings   \* those of the report given

emailVars == <<vars, answers, settled, report, warnings>>

EmailInit ==
  /\ Start
  /\ \E s \in Situations : published = s.policies /\ answers = s.answers
  /\ settled = {}
  /\ report = "pending" /\ warnings = {}

-----------------------------------------------------------------------------
(* analyzeDmarc: the first DMARC record counts. *)
DmarcRecords(texts) == {i \in DOMAIN texts : texts[i] # "unrelated"}
DmarcPolicy(texts) == texts[CHOOSE i \in DmarcRecords(texts) : \A j \in DmarcRecords(texts) : i <= j]

(* .catch(() => null), and fetchPolicy's catch. *)
parseStsId(texts) == texts # Failed /\ "id" \in ToSet(texts)
parseMtaStsPolicy(file) == file \in {"enforce", "testing"}

(* A plausible slip: a record or a policy will do. *)
configured_Either(a) == parseStsId(a.sts) \/ parseMtaStsPolicy(a.policy)

configured(a) == parseStsId(a.sts) /\ parseMtaStsPolicy(a.policy)

Rollup ==
  (IF answers.mx = <<>> THEN {"no MX"} ELSE {})
  \cup (IF phase = "no record" THEN {"no SPF"}
        ELSE IF ~withinLimit THEN {"SPF exceeds the limit"} ELSE {})
  \cup (IF DmarcRecords(answers.dmarc) = {} THEN {"no DMARC"}
        ELSE IF DmarcPolicy(answers.dmarc) = "p=none" THEN {"DMARC only monitors"} ELSE {})
  \cup (IF configured(answers) THEN {} ELSE {"no MTA-STS"})

-----------------------------------------------------------------------------
SpfSteps == Step /\ UNCHANGED <<answers, settled, report, warnings>>

(* lookupMx, checkDmarc or checkMtaSts settles. *)
Settles(l) ==
  /\ l \in Legs \ settled
  /\ settled' = settled \cup {l}
  /\ UNCHANGED <<vars, answers, report, warnings>>

(* A plausible slip: the requests of the MTA-STS check are not caught. *)
Rejected_Uncaught ==
  {l \in settled : CASE l = "mx" -> answers.mx = Failed
                     [] l = "dmarc" -> answers.dmarc = Failed
                     [] l = "mtaSts" -> Failed \in {answers.sts, answers.policy}}

Rejected == {l \in {"mx", "dmarc"} \cap settled : answers[l] = Failed}

(* Promise.all rejects with the first that does; the others go on.         *)
Rejects ==
  /\ report = "pending"
  /\ Rejected # {} \/ phase = "failed"
  /\ report' = "rejected"
  /\ UNCHANGED <<vars, answers, settled, warnings>>

Reports ==
  /\ report = "pending"
  /\ settled = Legs /\ Rejected = {}
  /\ phase \in {"answered", "no record"}
  /\ report' = "given" /\ warnings' = Rollup
  /\ UNCHANGED <<vars, answers, settled>>

EmailNext == SpfSteps \/ (\E l \in Legs : Settles(l)) \/ Rejects \/ Reports

(* Every lookup settles, in the time that DohClient allows it, and the     *)
(* fetch of the policy is aborted by its timer.                            *)
EmailSpec ==
  /\ EmailInit /\ [][EmailNext]_emailVars
  /\ WF_emailVars(EmailNext)

-----------------------------------------------------------------------------
(* A report blames the domain for no failure of a lookup: it says that MX, *)
(* SPF or DMARC are absent only if the answer said so.                     *)
AbsenceIsNotFailure ==
  report = "given" =>
    /\ Failed \notin {answers.mx, answers.dmarc}
    /\ "no MX" \in warnings => answers.mx = <<>>
    /\ "no SPF" \in warnings <=> published[Root] = NoPolicy
    /\ "no DMARC" \in warnings => ToSet(answers.dmarc) \subseteq {"unrelated"}

(* A report without warnings is that of a domain with MX records (be it a  *)
(* null MX), an SPF policy that can be evaluated, a DMARC policy other     *)
(* than p=none, and an MTA-STS record and policy (whichever its mode).     *)
QuietReportMeansConfigured ==
  report = "given" /\ warnings = {} =>
    /\ answers.mx # <<>>
    /\ published[Root] # NoPolicy
    /\ Cardinality(Lookups(Reached)) <= Limit
    /\ \E i \in DOMAIN answers.dmarc :
         /\ answers.dmarc[i] \notin {"unrelated", "p=none"}
         /\ \A j \in 1 .. i - 1 : answers.dmarc[j] = "unrelated"
    /\ answers.sts # Failed /\ "id" \in ToSet(answers.sts)
    /\ answers.policy \in {"enforce", "testing"}

(* Every report comes to an end, whatever includes whatever, and a failed  *)
(* lookup is an error for the caller, never a report.                      *)
EveryReportComes ==
  <>(IF phase = "failed" \/ Failed \in {answers.mx, answers.dmarc}
     THEN report = "rejected" ELSE report = "given")

=============================================================================
