------------------------------ MODULE MCRemind ------------------------------
EXTENDS Remind

MCNoTime == [kind |-> "relative", ms |-> 0]
In(ms) == [kind |-> "relative", ms |-> ms]
At(ms) == [kind |-> "absolute", ms |-> ms]
Cron == [kind |-> "cron", ms |-> 0]
MCTimes == {MCNoTime, In(1), In(4), At(3), Cron}

Add(time, to) == [action |-> "add", content |-> TRUE, time |-> time, jobId |-> 0, to |-> to]
Other(action, id, to) ==
    [action |-> action, content |-> FALSE, time |-> MCNoTime, jobId |-> id, to |-> to]

MCRequests ==
    {Add(t, "group:g") : t \in MCTimes} \cup {Add(In(4), NoConversation)}
      \cup {Other("list", 0, "group:g"), Other("list", 0, NoConversation),
            Other("remove", 1, "group:g"), Other("remove", 3, "group:g"),
            Other("remove", 0, "group:g"), Other("other", 0, "group:g")}

MCOldJobs == {[id |-> 1, by |-> NoJob, to |-> "direct:u", at |-> MaxTime + 1],
              [id |-> 2, by |-> NoJob, to |-> "group:g", at |-> 2]}

=============================================================================
