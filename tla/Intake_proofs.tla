---------------------------- MODULE Intake_proofs ----------------------------
(***************************************************************************)
(* The parts of MCIntake move apart: a behaviour of the whole is one of    *)
(* each part, so what was proved of the parts holds of the specification   *)
(* that the run intake checks, for any constants.                          *)
(***************************************************************************)
EXTENDS MCIntake, Inbound_proofs, Conversation_proofs, PlanLoading_proofs

LEMMA PartsRun ==
  /\ Spec => InboundSpec
  /\ Spec => MailSpec
  /\ Spec => ChatSpec
  /\ Spec => PlanSpec
<1>1. Init => InboundInit /\ MailInit /\ ChatInit /\ PlanInit
  BY DEF Init
<1>2. [Next]_vars => /\ [InboundNext]_inboundVars
                     /\ [MailNext]_mailVars
                     /\ [ChatNext]_chatVars
                     /\ [PlanNext]_planVars
  BY DEF Next, vars, Polling, Mailing, Chatting, Planning
<1> QED BY <1>1, <1>2, PTL DEF Spec, InboundSpec, MailSpec, ChatSpec, PlanSpec

(* Channels, mailbox, chat sessions and plan loading side by side keep the  *)
(* types of their state.                                                    *)
THEOREM IntakeTypesHold == Spec => []TypeOK
<1>1. InboundTypeOK /\ MailTypeOK /\ ChatTypeOK /\ PlanTypeOK => TypeOK
  BY DEF TypeOK
<1> QED BY <1>1, PartsRun, InboundTypesHold, MailTypesHold, ChatTypesHold, PlanTypesHold, PTL

(* And none of them breaks what another promises: every safety property of  *)
(* the four holds of the whole.                                             *)
THEOREM IntakeHolds ==
  Spec => /\ [](NoneIsOverlooked /\ DecidedAgainForAReason)
          /\ ActsOnlyForTheTrusted
          /\ [](CommandsCompose /\ AnswerInTimeIsHeard)
          /\ [](NothingIsLost /\ DeletedStaysDeleted)
          /\ [](LoadsWhatIsWritten /\ NoSilentRace)
BY PartsRun, NoneOverlooked, DecidedForAReason, OnlyTheTrustedAct, CommandsDoCompose, AnswersAreHeard,
   ChatLosesNothing, DeletedForGood, WrittenIsLoaded, RacesAreWarned, PTL
==============================================================================
