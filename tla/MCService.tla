------------------------------- MODULE MCService -------------------------------
(* The parts of the service around its sessions: the filing door (Filing), a  *)
(* person's rights (Rights), the adapter's intake (Intake), what a group's    *)
(* session is told (Contact), who is owed an answer (Debts), whether a stream *)
(* is over (Streams), the composing cue (Composing), the compactions nobody   *)
(* asks for (AutoCompaction), how any of them gets its summary (Capture), how *)
(* a message reaches the platform (Wire), what becomes of an edited, deleted  *)
(* or retracted one (Revisions, Retraction), the searches under a person's    *)
(* budget (Search, over Budgets), whom the assistant has introduced itself to *)
(* (Disclosure), and what a session knows of its deployment (Deployments).    *)
(* The modules share no variable; one run checks several of them.  Which one  *)
(* a behaviour is about is chosen at first, the others stay as they were.     *)
EXTENDS MCFiling, Intake, Contact, Debts, Rights, Streams, Composing,
        AutoCompaction, Capture, Wire, Revisions, Retraction, Search,
        Disclosure, Deployments

CONSTANT Parts       \* those a run checks

VARIABLE part

(* What earlier builds may have left: a session an older build answered in,   *)
(* and sessions whose prompt is not their first row, or missing.              *)
SomeLedgers == {
    <<Prompt(1), OlderChoice, SaidRow(1), Relayed(1)>>,
    <<OlderChoice, Relayed(1), Prompt(1), SaidRow(1)>>,
    <<SaidRow(1), Relayed(1)>>,
    <<Prompt(1), SendingChoice, SaidRow(1)>> }

ServiceInit ==
    /\ part \in Parts
    /\ Init /\ IntakeInit /\ ContactInit /\ DebtsInit /\ RightsInit
    /\ StreamsInit /\ ComposingInit /\ AutoInit /\ CaptureInit /\ WireInit
    /\ RevisionsInit /\ RetractionInit /\ SearchInit
    /\ DisclosureInit /\ DeployInit
    /\ part # "filing" => scene = CHOOSE s \in Scenes : TRUE
    /\ part # "streams" => ~tail
    /\ part # "wire" => message = <<1, "plain", {}, FALSE>>
    /\ part # "deployments" => ledgers = <<CHOOSE l \in Ledgers : TRUE>>

(* The part a behaviour is about moves; any other stays.                      *)
ServiceNext ==
    /\ UNCHANGED part
    /\ IF part = "filing" THEN Next ELSE UNCHANGED vars
    /\ IF part = "intake" THEN IntakeNext ELSE UNCHANGED intakeVars
    /\ IF part = "contact" THEN ContactNext ELSE UNCHANGED contactVars
    /\ IF part = "debts" THEN DebtsNext ELSE UNCHANGED debtVars
    /\ IF part = "rights" THEN RightsNext ELSE UNCHANGED rightsVars
    /\ IF part = "streams" THEN StreamsNext ELSE UNCHANGED streamVars
    /\ IF part = "composing" THEN ComposingNext ELSE UNCHANGED cueVars
    /\ IF part = "auto" THEN AutoNext ELSE UNCHANGED autoVars
    /\ IF part = "capture" THEN CaptureNext ELSE UNCHANGED captureVars
    /\ IF part = "wire" THEN WireNext ELSE UNCHANGED wireVars
    /\ IF part = "revisions" THEN RevisionsNext ELSE UNCHANGED revisionVars
    /\ IF part = "retraction" THEN RetractionNext ELSE UNCHANGED retractionVars
    /\ IF part = "search" THEN SearchNext ELSE UNCHANGED searchVars
    /\ IF part = "disclosure" THEN DisclosureNext ELSE UNCHANGED disclosureVars
    /\ IF part = "deployments" THEN DeployNext ELSE UNCHANGED deployVars

serviceVars == <<part, vars, intakeVars, contactVars, debtVars, rightsVars,
                 streamVars, cueVars, autoVars, captureVars, wireVars,
                 revisionVars, retractionVars, searchVars, disclosureVars,
                 deployVars>>

ServiceSpec == ServiceInit /\ [][ServiceNext]_serviceVars

(* Each part's own fairness, where it is the one that moves.                  *)
ServiceFairSpec ==
    /\ ServiceSpec
    /\ \A c \in Calls : WF_vars(part = "filing" /\ CallStep(c))
    /\ \A d \in Ingestions : WF_vars(part = "filing" /\ IngestStep(d))
    /\ \A p \in Erased : WF_vars(part = "filing" /\ ErasureStep(p))
    /\ WF_intakeVars(part = "intake" /\ Start)
    /\ WF_intakeVars(part = "intake" /\ Polls)
    /\ WF_intakeVars(part = "intake" /\ Listens)
    /\ \A u \in Updates : WF_intakeVars(part = "intake" /\ HandOver(u))
    /\ \A s \in Slots : WF_rightsVars(part = "rights" /\ service # "gone" /\ Ingestion(s))
    /\ \A t \in Tasks : WF_rightsVars(part = "rights" /\ service # "gone" /\ Erasure(t))
    /\ WF_rightsVars(part = "rights" /\ service # "gone" /\ ToolActs)
    /\ WF_rightsVars(part = "rights" /\ Leaves)
    /\ WF_streamVars(part = "streams" /\ Observes)
    /\ WF_streamVars(part = "streams" /\ Settles)
    /\ WF_streamVars(part = "streams" /\ HandlesInterrupt)
===============================================================================
