------------------------------ MODULE MCIntake ------------------------------
(***************************************************************************)
(* What comes in from people, for TLC: messages of a channel, polled;      *)
(* mailbox messages, answered; the requests on a chat session; and plan    *)
(* files.  They have nothing in common: in a behaviour one of the four     *)
(* moves and the others rest.                                              *)
(***************************************************************************)
EXTENDS Inbound, Mailbox, Chat, MCPlans

CONSTANTS web, app, m1, m2, m3, m4, m5, m6, friend, stranger, human, peer, tool, yes, no,
          t1, t2, yes1, yes2, not1, put1, put2, auto, name, fold, del, red, blue

VARIABLE scene

(* Two messages of one instant, the second with the lower id; an older one; *)
(* two of another channel, the last one empty; one without a createTime.    *)
TwoChannels  == {web, app}
SixMessages  == {m1, m2, m3, m4, m5, m6}
At(ch, t, r, who, what) == [channel |-> ch, time |-> t, rank |-> r, sender |-> who,
                            verb |-> what, confirmed |-> TRUE]
Posts == m1 :> At(web, 2, 2, friend, "run")    @@ m2 :> At(web, 2, 1, stranger, "run")
      @@ m3 :> At(web, 1, 3, stranger, "plan") @@ m4 :> At(app, 1, 1, stranger, "approve")
      @@ m5 :> At(app, 1, 2, friend, "none")   @@ m6 :> At(web, 0, 4, friend, "run")
EmptyBody == {m5}

(* channels.yaml allows one sender, or nobody.                              *)
TwoSenders == {friend, stranger}
Allow(who) == [enabled |-> TRUE, allowed_senders |-> who, allowed_actions |-> {"run", "plan"}]

PollOf(ms, w, n, cs) == [messages |-> ms, window |-> w, deaths |-> n, configs |-> cs,
                         from |-> 3, until |-> 3]
Fixed == {Allow({friend})}
SomePolls == { PollOf({m1, m2, m3}, 2, 1, Fixed), PollOf({m1, m2, m4}, 2, 0, Fixed),
               PollOf({m1, m4}, 2, 1, Fixed), PollOf({m1, m4, m5}, 2, 0, Fixed),
               PollOf({m1, m2}, 2, 1, {Allow({friend}), Allow({})}),
               [PollOf({m1, m3, m6}, 2, 1, Fixed) EXCEPT !.from = 2] }

(* A person answers, a peer resolves, the tool falls back to its default.   *)
ThreeCommands == {human, peer, tool}
TheirKeys     == human :> yes @@ peer :> Mute @@ tool :> no

(* Two turns, decisions on the first answer, two lists of tags, what the    *)
(* tagger finds, a new title, a compaction, a delete.                       *)
SomeRequests == {t1, t2, yes1, yes2, not1, put1, put2, auto, name, fold, del}
TwoTags      == {red, blue}
Of1(k)     == [kind |-> k, of |-> t1, tags |-> {}, titled |-> FALSE]
Giving(k, ts) == [Of1(k) EXCEPT !.tags = ts]
Naming(k)    == [Of1(k) EXCEPT !.titled = TRUE]
Asks == t1 :> Naming("turn") @@ t2 :> Naming("turn") @@ name :> Naming("patch")
     @@ yes1 :> Of1("approve") @@ yes2 :> Of1("approve") @@ not1 :> Of1("reject")
     @@ put1 :> Giving("put", {red}) @@ put2 :> Giving("put", {blue})
     @@ auto :> Giving("auto_tag", {red, blue})
     @@ fold :> Of1("compact") @@ del :> Of1("delete")
Together == { {t1, t2, yes1, fold}, {t1, yes1, yes2, not1}, {t1, yes1, put1, del},
              {t1, put1, put2, auto}, {t1, t2, name, put1} }

vars == <<scene, inboundVars, mailVars, chatVars, planVars>>

Init == /\ scene \in {"poll", "mail", "chat", "plan"}
        /\ InboundInit /\ (scene # "poll" => poll = PollOf({m1, m4}, 2, 1, Fixed))
        /\ MailInit    /\ (scene # "mail" => kind = "blocking")
        /\ ChatInit    /\ (scene # "chat" => busy = {t1, t2, yes1, fold})
        /\ PlanInit    /\ (scene # "plan" => source = APlan)

Polling(A)  == scene = "poll" /\ A /\ UNCHANGED <<scene, mailVars, chatVars, planVars>>
Mailing(A)  == scene = "mail" /\ A /\ UNCHANGED <<scene, inboundVars, chatVars, planVars>>
Chatting(A) == scene = "chat" /\ A /\ UNCHANGED <<scene, inboundVars, mailVars, planVars>>
Planning(A) == scene = "plan" /\ A /\ UNCHANGED <<scene, inboundVars, mailVars, chatVars>>

Next == Polling(InboundNext) \/ Mailing(MailNext) \/ Chatting(ChatNext) \/ Planning(PlanNext)

(* A poller keeps polling, and one that ended is started again.  The tool   *)
(* loops and its timeout comes, and the scheduler looks at its gate again.  *)
Fairness ==
  /\ \A ch \in Channels : WF_vars(Polling(PollStep(ch)))
  /\ WF_vars(Mailing(Asking)) /\ WF_vars(Mailing(TimePasses))
  /\ WF_vars(Mailing(LoadMail(Default) \/ Save(Default)))
  /\ WF_vars(Mailing(GatePasses))

Spec == Init /\ [][Next]_vars /\ Fairness

(* All parts keep their types.                                              *)
TypeOK == InboundTypeOK /\ MailTypeOK /\ ChatTypeOK /\ PlanTypeOK
=============================================================================
