----------------------------- MODULE MCOutbound -----------------------------
EXTENDS Outbound, TLC

MCUsers == {"annId", "yuanbaoId"}
MCNames == {"ann", "joanna"}
MCNameContains == {<<"ann", "ann">>, <<"joanna", "joanna">>, <<"joanna", "ann">>}

Ann == [id |-> "annId", name |-> "ann", type |-> "user"]
Yuanbao == [id |-> "yuanbaoId", name |-> "joanna", type |-> "yuanbao"]
MCRosters == <<{Yuanbao}, {Ann, Yuanbao}>>
MCSpeakers == {[id |-> "annId", name |-> "joanna"]}

Text(name) == [kind |-> "text", names |-> name]
Media == [kind |-> "media", names |-> NoUser]
Sticker == [kind |-> "sticker", names |-> NoUser]
Reply(r, from, its) ==
    [via |-> "reply", ref |-> r, refFrom |-> from, to |-> Group, inGroup |-> TRUE, items |-> its]
Action(how, to, its) ==
    [via |-> how, ref |-> NoRef, refFrom |-> NoUser, to |-> to, inGroup |-> FALSE, items |-> its]

MCJobs ==
    {Reply("r1", "annId", <<Text("ann")>>), Reply("r2", NoUser, <<Text(NoUser), Text(NoUser)>>),
     Action("action", "ann", <<Sticker>>), Action("outbound", NoTarget, <<Text(NoUser)>>),
     Action("outbound", Group, <<Media>>)}

CallerSymmetry == Permutations(Callers)
=============================================================================
