------------------------------ MODULE Outbound ------------------------------
(***************************************************************************)
(* Calls that send messages, running concurrently (Sender) with what they  *)
(* share: the client, the members of the group (Member), the names         *)
(* (Directory) and the quotes that were used (TtlDb).  The server's member *)
(* list, the connection, speakers and the clock change under them.         *)
(***************************************************************************)
EXTENDS Sender

vars == <<now, serverVars, senderVars>>

Init == TtlDbInit /\ MemberInit /\ DirectoryInit /\ SenderInit

\* A message of the group is read: record-member.
SpeakerSeen ==
    /\ \E s \in Speakers : RecordUser(s.id, s.name)
    /\ UNCHANGED <<now, serverVars, storeVars, cache, yuanbaoUserId, query, directoryCache,
                   callVars, traceVars, wire>>

\* A request does not outlive its timeout.
Tick ==
    /\ now < MaxTime
    /\ \A c \in Callers : query[c].asked => now - query[c].at < RequestTimeout
    /\ now' = now + 1
    /\ UNCHANGED <<serverVars, senderVars>>

Environment ==
    \/ (RosterChanges \/ ConnectionChanges) /\ UNCHANGED <<now, senderVars>>
    \/ \E c \in Callers :
         /\ ServerAnswers(c)
         /\ UNCHANGED <<now, serverVars, storeVars, memberVars, directoryCache, callVars,
                        traceVars, wire>>
    \/ SpeakerSeen
    \/ Tick

Next == Environment \/ \E c \in Callers : Turn(c) /\ UNCHANGED <<now, serverVars>>

Spec == Init /\ [][Next]_vars

-----------------------------------------------------------------------------
(* Properties *)

Quoting(r) == {i \in DOMAIN wire : wire[i].quote = r /\ wire[i].written}

\* With replyToMode "first", two messages that quote the same one are at least
\* TtlMs apart, whatever calls they come from and however long each looked for
\* the uid; unless MaxKeys other quotes used up the memory in between.
QuotedOnce ==
    Mode = "first" =>
      \A r \in Refs : \A i, j \in Quoting(r) :
        i < j => \/ wire[j].at - wire[i].at >= TtlMs
                 \/ Cardinality({q \in Refs \ {r} : q \in {wire[k].quote : k \in i .. j}}) >= MaxKeys

\* The messages that answer one inbound message leave in the order of their
\* sequence numbers, which the server sorts them by.
SeqInWireOrder ==
    \A i, j \in DOMAIN wire :
        i < j /\ wire[i].trace = wire[j].trace /\ wire[i].trace # NoRef
            => wire[i].seq < wire[j].seq

TypeOK ==
    /\ now \in 0 .. MaxTime /\ lastCleanupAt \in 0 .. now /\ Cardinality(store) <= MaxKeys
    /\ roster \in DOMAIN Rosters /\ cache.version \in 0 .. Len(Rosters)
    /\ yuanbaoUserId \in Users \cup {NoUser} /\ Len(directoryCache) <= MaxSize
    /\ stage \in [Callers -> {"idle", "item", "mention", "load", "download", "upload",
                              "quote", "uid", "send", "answer", "done"}]
    /\ target \in [Callers -> Users \cup Names \cup {Group, NoTarget}]
    /\ told \in [Callers -> {"nothing", "ok", "failed"}]
    /\ seqCounter \in [Refs -> Nat]
=============================================================================
