---------------------------- MODULE YardContract ----------------------------
(***************************************************************************)
(* What dynamic-yard reconsideration promises the rest of the system: one  *)
(* forecast before discharge and one after, one assessment of the latter,  *)
(* and one settlement of that assessment, by the agent's tool or by an     *)
(* operator's selection from the review the tool opens.                    *)
(*                                                                         *)
(* "AUTOMATIC" stands for the dispositions NO_CHANGE and AUTO_SUPERSEDE,   *)
(* which the tool settles by itself.                                       *)
(***************************************************************************)
VARIABLES
  stage,       \* newest forecast of a bootstrapped yard: "NONE",
               \* "PRE_DISCHARGE", "DISCHARGE_ACTIVE"
  assessment,  \* who may settle the assessment, "NONE" before there is one
  handled,     \* its handled_at is set
  review       \* the tradeoff review: "NONE", "OPEN", "RESOLVED"

yardVars == <<stage, assessment, handled, review>>

ReviewDispositions == {"AUTOMATIC", "HUMAN_REVIEW_REQUIRED"}

\* latest_unhandled_assessment
Unhandled == assessment # "NONE" /\ ~handled

YardInit ==
  /\ stage = "NONE" /\ assessment = "NONE" /\ handled = FALSE /\ review = "NONE"

Bootstrap ==
  /\ stage = "NONE" /\ stage' = "PRE_DISCHARGE"
  /\ UNCHANGED <<assessment, handled, review>>

\* The later forecast is stored before it is assessed, in a commit of its own.
Receive ==
  /\ stage = "PRE_DISCHARGE" /\ stage' = "DISCHARGE_ACTIVE"
  /\ UNCHANGED <<assessment, handled, review>>

\* The assessment, for a forecast stored now or by an earlier request.
Assess(disposition) ==
  /\ stage # "NONE" /\ assessment = "NONE"
  /\ stage' = "DISCHARGE_ACTIVE" /\ assessment' = disposition
  /\ UNCHANGED <<handled, review>>

Settle ==
  /\ Unhandled /\ assessment = "AUTOMATIC"
  /\ handled' = TRUE
  /\ UNCHANGED <<stage, assessment, review>>

\* A review keeps its assessment unhandled until the operator selects.
OpenReview ==
  /\ Unhandled /\ assessment = "HUMAN_REVIEW_REQUIRED"
  /\ review = "NONE" /\ review' = "OPEN"
  /\ UNCHANGED <<stage, assessment, handled>>

Resolve ==
  /\ review = "OPEN" /\ review' = "RESOLVED"
  /\ handled' = TRUE
  /\ UNCHANGED <<stage, assessment>>

YardNext ==
  \/ Bootstrap \/ Receive \/ Settle \/ OpenReview \/ Resolve
  \/ \E disposition \in ReviewDispositions : Assess(disposition)

YardSpec == YardInit /\ [][YardNext]_yardVars

-----------------------------------------------------------------------------
\* Only the later forecast is assessed, an operator is asked only what the
\* tool may not settle, and the selection alone settles that.
YardInv ==
  /\ stage \in {"NONE", "PRE_DISCHARGE", "DISCHARGE_ACTIVE"}
  /\ assessment \in {"NONE"} \cup ReviewDispositions /\ handled \in BOOLEAN
  /\ review \in {"NONE", "OPEN", "RESOLVED"}
  /\ stage # "DISCHARGE_ACTIVE" => assessment = "NONE"
  /\ assessment = "NONE" => ~handled
  /\ review # "NONE" => assessment = "HUMAN_REVIEW_REQUIRED"
  /\ assessment = "HUMAN_REVIEW_REQUIRED" => (handled <=> review = "RESOLVED")
=============================================================================
