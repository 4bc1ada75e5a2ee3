------------------------------ MODULE MCEmail -------------------------------
(* Every way in which three domains can publish policies of up to two      *)
(* terms that include each other, with the other checks in order; and one  *)
(* domain with every combination of answers to the other checks.           *)
EXTENDS Email

CONSTANTS one, two, three

MCDomains == {one, two, three}
MCTerms == {[counts |-> TRUE, target |-> d] : d \in MCDomains \cup {Nowhere}}
Plain == [counts |-> FALSE, target |-> Nowhere]
MCPolicies == BoundedSeq(MCTerms, 2) \cup {<<Plain>>}

Good == [mx |-> <<"host">>, dmarc |-> <<"p=reject">>, sts |-> <<"id">>, policy |-> "enforce"]

Alone == [d \in MCDomains |-> IF d = one THEN <<Plain>> ELSE NoPolicy]

MCSituations ==
  {[policies |-> p, answers |-> Good] : p \in [MCDomains -> MCPolicies \cup {NoPolicy}]}
  \cup
  {[policies |-> p, answers |-> a] :
     p \in {Alone, [d \in MCDomains |-> NoPolicy]},
     a \in [mx : MxAnswers \cup {Failed}, dmarc : BoundedSeq(DmarcTexts, 2) \cup {Failed},
            sts : BoundedSeq(StsTexts, 1) \cup {<<"no id", "id">>, Failed}, policy : PolicyFiles \cup {Failed}]}

=============================================================================
