---------------------------- MODULE OutboundProofs ----------------------------
(***************************************************************************)
(* Proofs about Outbound, for any number of calls, messages and member     *)
(* lists: sequence numbers rise in the order the messages leave, and the   *)
(* cached member list is no older than its age and one request.            *)
(***************************************************************************)
EXTENDS Outbound, FiniteSetTheorems, TLAPS

-----------------------------------------------------------------------------
(* Sequence numbers *)

\* No message carries a number above the counter of its trace, and the numbers
\* of a trace rise.
Numbered ==
    /\ \A i \in DOMAIN wire :
         wire[i].trace # NoRef =>
            /\ wire[i].trace \in Refs
            /\ wire[i].seq \in Nat /\ wire[i].seq <= seqCounter[wire[i].trace]
    /\ SeqInWireOrder

SeqInv ==
    /\ seqCounter \in [Refs -> Nat]
    /\ DOMAIN job = Callers /\ \A c \in Callers : job[c].ref \in Refs \cup {NoRef}
    /\ \E S : wire \in Seq(S)
    /\ Numbered

\* Nothing was sent.
LEMMA SeqInit == Init => SeqInv
<1>. SUFFICES ASSUME Init PROVE SeqInv
  OBVIOUS
<1>1. wire = <<>> /\ wire \in Seq({}) /\ DOMAIN wire = {}
  BY DEF Init, SenderInit
<1>. QED
  BY <1>1 DEF Init, SenderInit, SeqInv, Numbered, SeqInWireOrder, NoJob

\* A message takes the number after the last one of its trace.
LEMMA SendSeq ==
    ASSUME SeqInv, NEW c \in Callers, Send(c)
    PROVE  SeqInv'
<1>. DEFINE r == job[c].ref
            m == [by |-> c, body |-> body[c], to |-> target[c],
                  written |-> connected, quote |-> IF Quotes(c) THEN r ELSE NoRef, at |-> now,
                  trace |-> r, seq |-> IF r = NoRef THEN 0 ELSE seqCounter[r] + 1]
<1>1. PICK S : wire \in Seq(S)
  BY DEF SeqInv
<1>2. wire' = Append(wire, m) /\ job' = job
  BY DEF Send
<1>3. seqCounter' = IF r = NoRef THEN seqCounter ELSE [seqCounter EXCEPT ![r] = @ + 1]
  BY DEF Send
<1>4. m.trace = r /\ (r # NoRef => m.seq = seqCounter[r] + 1)
  OBVIOUS
<1>. HIDE DEF m
<1>5. /\ wire' \in Seq(S \cup {m}) /\ Len(wire) \in Nat
      /\ DOMAIN wire = 1 .. Len(wire) /\ DOMAIN wire' = 1 .. (Len(wire) + 1)
      /\ \A i \in 1 .. Len(wire) : wire'[i] = wire[i]
      /\ wire'[Len(wire) + 1] = m
  BY <1>1, <1>2
<1>6. /\ r \in Refs \cup {NoRef} /\ seqCounter' \in [Refs -> Nat]
      /\ \A q \in Refs : seqCounter[q] \in Nat /\ seqCounter'[q] >= seqCounter[q]
      /\ r # NoRef => m.seq \in Nat /\ m.seq = seqCounter'[r] /\ m.seq > seqCounter[r]
  BY <1>3, <1>4 DEF SeqInv
<1>7. ASSUME NEW i \in DOMAIN wire', wire'[i].trace # NoRef
      PROVE  /\ wire'[i].trace \in Refs
             /\ wire'[i].seq \in Nat /\ wire'[i].seq <= seqCounter'[wire'[i].trace]
  <2>1. CASE i = Len(wire) + 1
    BY <1>4, <1>5, <1>6, <1>7, <2>1
  <2>2. CASE i \in DOMAIN wire
    BY <1>5, <1>6, <1>7, <2>2 DEF SeqInv, Numbered
  <2>. QED  BY <1>5, <2>1, <2>2
<1>8. ASSUME NEW i \in DOMAIN wire', NEW j \in DOMAIN wire', i < j,
             wire'[i].trace = wire'[j].trace, wire'[i].trace # NoRef
      PROVE  wire'[i].seq < wire'[j].seq
  <2>1. i \in DOMAIN wire
    BY <1>5, <1>8
  <2>2. CASE j = Len(wire) + 1
    <3>1. wire[i].seq <= seqCounter[r] /\ wire[i].seq \in Nat
      BY <1>4, <1>5, <1>8, <2>1, <2>2 DEF SeqInv, Numbered
    <3>. QED  BY <1>4, <1>5, <1>6, <1>8, <2>1, <2>2, <3>1
  <2>3. CASE j \in DOMAIN wire
    BY <1>5, <1>8, <2>1, <2>3 DEF SeqInv, Numbered, SeqInWireOrder
  <2>. QED  BY <1>5, <2>2, <2>3
<1>9. Numbered'
  BY <1>7, <1>8 DEF Numbered, SeqInWireOrder
<1>. QED  BY <1>2, <1>5, <1>6, <1>9 DEF SeqInv

\* No other step sends, numbers a message, or gives a number back.
LEMMA QuietSeq ==
    ASSUME SeqInv, UNCHANGED <<job, seqCounter, wire>>
    PROVE  SeqInv'
BY DEF SeqInv, Numbered, SeqInWireOrder

\* A call is one of the jobs there are.
LEMMA BeginSeq ==
    ASSUME SeqInv, NEW c \in Callers, NEW j \in Jobs, Begin(c, j)
    PROVE  SeqInv'
<1>1. j.ref \in Refs \cup {NoRef}
  BY SenderConstants DEF JobType
<1>2. job' = [job EXCEPT ![c] = j] /\ UNCHANGED <<seqCounter, wire>>
  BY DEF Begin, traceVars
<1>. QED  BY <1>1, <1>2 DEF SeqInv, Numbered, SeqInWireOrder

\* Every step keeps the numbers in order.
LEMMA SeqNext == SeqInv /\ [Next]_vars => SeqInv'
<1>. SUFFICES ASSUME SeqInv, [Next]_vars PROVE SeqInv'
  OBVIOUS
<1>1. CASE Environment \/ UNCHANGED vars
  <2>1. UNCHANGED <<job, seqCounter, wire>>
    BY <1>1 DEF Environment, SpeakerSeen, Tick, vars, senderVars, callVars, traceVars
  <2>. QED  BY <2>1, QuietSeq
<1>2. ASSUME NEW c \in Callers, Turn(c) PROVE SeqInv'
  <2>1. CASE \E j \in Jobs : Begin(c, j)
    BY <2>1, BeginSeq
  <2>2. CASE Send(c)
    BY <2>2, SendSeq
  <2>3. CASE Prepare(c) \/ StickerUnknown(c) \/ LooksUpUid(c) \/ NoLookUp(c)
    BY <2>3, QuietSeq DEF Prepare, StickerUnknown, LooksUpUid, NoLookUp, traceVars
  <2>4. CASE \E ok \in BOOLEAN :
               \/ Loaded(c, ok) \/ Downloaded(c, ok) \/ Uploaded(c, ok)
               \/ MentionResolved(c, ok) \/ UidResolved(c, ok) \/ Answered(c, ok)
    BY <2>4, QuietSeq
    DEF Loaded, Downloaded, Uploaded, MediaStep, MentionResolved, UidResolved, Answered,
      traceVars
  <2>. QED  BY <1>2, <2>1, <2>2, <2>3, <2>4 DEF Turn
<1>. QED  BY <1>1, <1>2 DEF Next

\* The messages that answer one inbound message leave in the order of their
\* numbers, however the calls that send them wait for each other's look-ups and
\* whatever fails.
THEOREM SequenceRises == Spec => []SeqInWireOrder
<1>1. SeqInv => SeqInWireOrder
  BY DEF SeqInv, Numbered
<1>. QED  BY <1>1, SeqInit, SeqNext, PTL DEF Spec

-----------------------------------------------------------------------------
(* The age of the member list *)

\* A request in flight was made within the timeout, and its answer is a list the
\* server had after that.
QueryKnown(c) ==
    query[c].asked =>
      /\ query[c].at \in 0 .. now /\ now - query[c].at <= RequestTimeout
      /\ query[c].answer \in {0} \cup DOMAIN Rosters
      /\ query[c].answer # 0 => ended[query[c].answer] >= query[c].at

AgeInv ==
    /\ now \in 0 .. MaxTime
    /\ roster \in DOMAIN Rosters
    /\ ended \in [DOMAIN Rosters -> Nat]
    /\ \A v \in DOMAIN Rosters : v >= roster => ended[v] = MaxTime
    /\ cache.version \in {0} \cup DOMAIN Rosters /\ cache.at \in 0 .. now
    /\ DOMAIN query = Callers /\ \A c \in Callers : QueryKnown(c)
    /\ CacheKnowsItsAge

\* Lists are numbered from 1.
LEMMA ListsNumbered ==
    /\ DOMAIN Rosters \subseteq Nat \ {0} /\ 1 \in DOMAIN Rosters
    /\ \A v \in DOMAIN Rosters : v + 1 <= Len(Rosters) => v + 1 \in DOMAIN Rosters
    /\ Len(Rosters) \in Nat
<1>1. Len(Rosters) \in Nat \ {0} /\ DOMAIN Rosters = 1 .. Len(Rosters)
  BY MemberConstants
<1>. QED  BY <1>1

\* Nothing is cached, nobody has asked.
LEMMA AgeInit == Init => AgeInv
<1>. SUFFICES ASSUME TtlDbInit, MemberInit PROVE AgeInv
  BY DEF Init
<1>. QED
  BY ListsNumbered, TtlDbConstants, MemberConstants
  DEF TtlDbInit, MemberInit, AgeInv, QueryKnown, CacheKnowsItsAge, NoList, NoQuery

\* A turn of a call asks, settles its question, or leaves the cache alone.
LEMMA TurnOfCache ==
    ASSUME NEW c \in Callers, Turn(c)
    PROVE  \/ UNCHANGED <<cache, query>>
           \/ Ask(c) /\ UNCHANGED cache
           \/ \E ok \in BOOLEAN : CanSettle(c, ok) /\ Fetched(c, ok) /\ Forgets(c)
<1>1. CASE \E j \in Jobs : Begin(c, j)
  BY <1>1 DEF Begin, memberVars
<1>2. CASE Prepare(c) \/ LooksUpUid(c)
  BY <1>2 DEF Prepare, PrepareText, PrepareMedia, PrepareSticker, LooksUpUid, memberVars
<1>3. CASE StickerUnknown(c) \/ NoLookUp(c) \/ Send(c)
  BY <1>3 DEF StickerUnknown, NoLookUp, Send, memberVars
<1>4. ASSUME NEW ok \in BOOLEAN,
             Loaded(c, ok) \/ Downloaded(c, ok) \/ Uploaded(c, ok) \/ Answered(c, ok)
      PROVE  UNCHANGED <<cache, query>>
  BY <1>4 DEF Loaded, Downloaded, Uploaded, MediaStep, Answered, memberVars
<1>5. ASSUME NEW ok \in BOOLEAN, MentionResolved(c, ok) \/ UidResolved(c, ok)
      PROVE  CanSettle(c, ok) /\ Fetched(c, ok) /\ Forgets(c)
  BY <1>5 DEF MentionResolved, UidResolved
<1>. QED  BY <1>1, <1>2, <1>3, <1>4, <1>5 DEF Turn

\* A question is as old as no time at all; its answer is cached with the time it
\* came, at most a request's timeout after the server gave it.
LEMMA TurnAge ==
    ASSUME AgeInv, NEW c \in Callers, Turn(c), UNCHANGED <<now, serverVars>>
    PROVE  AgeInv'
<1>1. UNCHANGED <<now, roster, ended>>
  BY DEF serverVars
<1>2. CASE UNCHANGED <<cache, query>>
  BY <1>1, <1>2 DEF AgeInv, QueryKnown, CacheKnowsItsAge
<1>3. CASE Ask(c) /\ UNCHANGED cache
  BY <1>1, <1>3, MemberConstants DEF Ask, AgeInv, QueryKnown, CacheKnowsItsAge
<1>4. ASSUME NEW ok \in BOOLEAN, CanSettle(c, ok), Fetched(c, ok), Forgets(c) PROVE AgeInv'
  <2>1. DOMAIN query' = Callers /\ \A d \in Callers : QueryKnown(d)'
    BY <1>1, <1>4 DEF AgeInv, QueryKnown, Forgets, NoQuery
  <2>2. CASE cache' = cache
    BY <1>1, <2>1, <2>2 DEF AgeInv, CacheKnowsItsAge
  <2>3. CASE ok /\ cache' = [version |-> query[c].answer, at |-> now]
    <3>1. /\ query[c].at \in 0 .. now /\ now - query[c].at <= RequestTimeout
          /\ query[c].answer \in DOMAIN Rosters /\ ended[query[c].answer] >= query[c].at
      BY <1>4, <2>3 DEF AgeInv, QueryKnown, CanSettle
    <3>2. cache'.version = query[c].answer /\ cache'.at = now
      BY <2>3
    <3>3. CacheKnowsItsAge'
      BY <1>1, <3>1, <3>2, TtlDbConstants, MemberConstants DEF AgeInv, CacheKnowsItsAge
    <3>. QED  BY <1>1, <2>1, <3>1, <3>2, <3>3 DEF AgeInv
  <2>. QED  BY <1>4, <2>2, <2>3 DEF Fetched
<1>. QED  BY <1>2, <1>3, <1>4, TurnOfCache

\* A list that is replaced was the server's until now.
LEMMA RosterAge ==
    ASSUME AgeInv, RosterChanges, UNCHANGED <<now, cache, query>>
    PROVE  AgeInv'
<1>1. roster' \in DOMAIN Rosters /\ roster' = roster + 1 /\ roster \in Nat
  BY ListsNumbered DEF AgeInv, RosterChanges
<1>2. /\ ended' \in [DOMAIN Rosters -> Nat] /\ ended'[roster] = now
      /\ \A v \in DOMAIN Rosters \ {roster} : ended'[v] = ended[v]
  BY TtlDbConstants DEF AgeInv, RosterChanges
<1>3. \A c \in Callers : QueryKnown(c)'
  BY <1>2 DEF AgeInv, QueryKnown
<1>4. CacheKnowsItsAge'
  <2>. SUFFICES ASSUME cache.version # 0
                PROVE  ended'[cache.version] >= cache.at - RequestTimeout
    BY DEF CacheKnowsItsAge
  <2>1. cache.at \in Nat /\ now \in Nat /\ cache.at <= now /\ RequestTimeout \in Nat
    BY TtlDbConstants, MemberConstants DEF AgeInv
  <2>2. CASE cache.version = roster
    BY <1>2, <2>1, <2>2
  <2>3. CASE cache.version # roster
    BY <1>2, <2>3 DEF AgeInv, CacheKnowsItsAge
  <2>. QED  BY <2>2, <2>3
<1>5. ASSUME NEW v \in DOMAIN Rosters, v >= roster' PROVE ended'[v] = MaxTime
  <2>1. v \in Nat /\ v >= roster /\ v # roster
    BY <1>1, <1>5, ListsNumbered
  <2>. QED  BY <1>2, <2>1 DEF AgeInv
<1>. QED  BY <1>1, <1>2, <1>3, <1>4, <1>5 DEF AgeInv

\* The answer is the list the server has while the request is in flight.
LEMMA AnswerAge ==
    ASSUME AgeInv, NEW c \in Callers, ServerAnswers(c), UNCHANGED <<now, serverVars, cache>>
    PROVE  AgeInv'
<1>1. \A d \in Callers \ {c} : query'[d] = query[d]
  BY DEF ServerAnswers, AgeInv
<1>2. query[c].asked /\ query'[c] = [query[c] EXCEPT !.answer = roster] /\ DOMAIN query' = Callers
  BY DEF ServerAnswers, AgeInv
<1>3. QueryKnown(c)'
  <2>. SUFFICES ASSUME query'[c].asked PROVE QueryKnown(c)'
    BY DEF QueryKnown
  <2>1. ended[roster] = MaxTime /\ roster \in DOMAIN Rosters
    BY ListsNumbered DEF AgeInv
  <2>2. query'[c].at = query[c].at
    BY <1>2
  <2>. QED  BY <1>2, <2>1, <2>2, TtlDbConstants DEF AgeInv, QueryKnown, serverVars
<1>. QED  BY <1>1, <1>2, <1>3 DEF AgeInv, QueryKnown, CacheKnowsItsAge, serverVars

\* Every step keeps the ages.
LEMMA AgeNext == AgeInv /\ [Next]_vars => AgeInv'
<1>. SUFFICES ASSUME AgeInv, [Next]_vars PROVE AgeInv'
  OBVIOUS
<1>1. CASE RosterChanges /\ UNCHANGED <<now, senderVars>>
  BY <1>1, RosterAge DEF senderVars, memberVars
<1>2. CASE \E c \in Callers : ServerAnswers(c) /\ UNCHANGED <<now, serverVars, memberVars>>
  BY <1>2, AnswerAge DEF memberVars
<1>3. CASE Tick
  BY <1>3, TtlDbConstants, MemberConstants
  DEF Tick, serverVars, senderVars, memberVars, AgeInv, QueryKnown, CacheKnowsItsAge
<1>4. CASE UNCHANGED <<now, roster, ended, cache, query>>
  BY <1>4 DEF AgeInv, QueryKnown, CacheKnowsItsAge
<1>5. CASE (ConnectionChanges /\ UNCHANGED <<now, senderVars>>) \/ SpeakerSeen \/ UNCHANGED vars
  <2>1. UNCHANGED <<now, roster, ended, cache, query>>
    BY <1>5 DEF ConnectionChanges, SpeakerSeen, vars, serverVars, senderVars, memberVars
  <2>. QED  BY <1>4, <2>1
<1>6. ASSUME NEW c \in Callers, Turn(c), UNCHANGED <<now, serverVars>> PROVE AgeInv'
  BY <1>6, TurnAge
<1>. QED  BY <1>1, <1>2, <1>3, <1>5, <1>6 DEF Next, Environment

\* A member list taken from the cache was the server's list at most a request's
\* timeout before the time it is dated.
THEOREM AgeIsTrue == Spec => []CacheKnowsItsAge
<1>1. AgeInv => CacheKnowsItsAge
  BY DEF AgeInv
<1>. QED  BY <1>1, AgeInit, AgeNext, PTL DEF Spec

-----------------------------------------------------------------------------
(* Quotes *)

\* What is quoted beside the message that the i-th one quotes, from there on.
OthersFrom(i) == {q \in Refs \ {wire[i].quote} : q \in {wire[k].quote : k \in i .. Len(wire)}}

\* A quote is an hour old, or pushed out by others, or in the store.
Remembered(i) ==
    \/ now - wire[i].at >= TtlMs
    \/ Cardinality(OthersFrom(i)) >= MaxKeys
    \/ \E e \in store : e.key = wire[i].quote /\ e.expiresAt >= wire[i].at + TtlMs

\* The i-th message put the entry into the store, and no later one quotes the same.
SetBy(e, i) ==
    /\ wire[i].quote = e.key /\ e.expiresAt = wire[i].at + TtlMs
    /\ \A k \in i + 1 .. Len(wire) : wire[k].quote # e.key

\* Messages are in the order of time.
WireOrdered ==
    /\ \E S : wire \in Seq(S)
    /\ \A i \in DOMAIN wire : wire[i].quote \in Refs \cup {NoRef} /\ wire[i].at \in 0 .. now
    /\ \A i, j \in DOMAIN wire : i < j => wire[i].at <= wire[j].at

\* The entries are in the order of the messages that set them.
StoreOrdered ==
    /\ IsFiniteSet(store) /\ inserted \in Nat
    /\ \A e \in store : /\ e.key \in Refs /\ e.nr \in Nat /\ e.nr < inserted
                        /\ \E i \in DOMAIN wire : SetBy(e, i)
    /\ \A e, f \in store : e.key = f.key \/ e.nr = f.nr => e = f
    /\ \A e, f \in store : \A i, j \in DOMAIN wire :
          e.nr < f.nr /\ SetBy(e, i) /\ SetBy(f, j) => i < j

\* QuotedOnce, of unwritten messages too.
Apart ==
    \A i, j \in DOMAIN wire :
        i < j /\ wire[i].quote = wire[j].quote /\ wire[i].quote # NoRef =>
          \/ wire[j].at - wire[i].at >= TtlMs
          \/ Cardinality({q \in Refs \ {wire[i].quote} : q \in {wire[k].quote : k \in i .. j}})
               >= MaxKeys

QuoteInv ==
    /\ now \in Nat /\ DOMAIN job = Callers /\ \A c \in Callers : job[c].ref \in Refs \cup {NoRef}
    /\ WireOrdered /\ StoreOrdered /\ Apart
    /\ \A i \in DOMAIN wire : wire[i].quote # NoRef => Remembered(i)

\* Nothing was sent.
LEMMA QuoteInit == Init => QuoteInv
<1>. SUFFICES ASSUME Init PROVE QuoteInv
  OBVIOUS
<1>1. wire = <<>> /\ wire \in Seq({}) /\ DOMAIN wire = {} /\ store = {} /\ IsFiniteSet(store)
  BY FS_EmptySet DEF Init, SenderInit, TtlDbInit
<1>. QED
  BY <1>1 DEF Init, SenderInit, TtlDbInit, QuoteInv, WireOrdered, StoreOrdered, Apart, NoJob

\* Time passes, and calls do what needs no quote.
LEMMA QuietQuote ==
    ASSUME QuoteInv, UNCHANGED <<store, inserted, wire>>, now' \in Nat, now' >= now,
           DOMAIN job' = Callers, \A c \in Callers : job'[c].ref \in Refs \cup {NoRef}
    PROVE  QuoteInv'
<1>1. WireOrdered'
  BY DEF QuoteInv, WireOrdered
<1>2. \A e, i : SetBy(e, i)' <=> SetBy(e, i)
  BY DEF SetBy
<1>3. StoreOrdered'
  BY <1>2 DEF QuoteInv, StoreOrdered
<1>4. Apart'
  BY DEF QuoteInv, Apart
<1>5. ASSUME NEW i \in DOMAIN wire, Remembered(i) PROVE Remembered(i)'
  <2>1. OthersFrom(i)' = OthersFrom(i)
    BY DEF OthersFrom
  <2>2. wire[i].at \in Nat /\ TtlMs \in Nat
    BY TtlDbConstants DEF QuoteInv, WireOrdered
  <2>. QED  BY <1>5, <2>1, <2>2 DEF Remembered, QuoteInv
<1>. QED  BY <1>1, <1>3, <1>4, <1>5 DEF QuoteInv

\* One more message, of now.
LEMMA OneMore ==
    ASSUME QuoteInv, NEW m, wire' = Append(wire, m), now' = now,
           m.at = now, m.quote \in Refs \cup {NoRef}
    PROVE  /\ WireOrdered'
           /\ Len(wire) \in Nat /\ DOMAIN wire = 1 .. Len(wire)
           /\ Len(wire') = Len(wire) + 1 /\ DOMAIN wire' = 1 .. Len(wire')
           /\ wire'[Len(wire')] = m /\ \A i \in DOMAIN wire : wire'[i] = wire[i]
           /\ \A i \in DOMAIN wire :
                /\ OthersFrom(i) \subseteq OthersFrom(i)'
                /\ Cardinality(OthersFrom(i)) <= Cardinality(OthersFrom(i)')
           /\ \A i \in DOMAIN wire' :
                IsFiniteSet(OthersFrom(i)') /\ Cardinality(OthersFrom(i)') \in Nat
<1>1. PICK S : wire \in Seq(S)
  BY DEF QuoteInv, WireOrdered
<1>2. /\ Len(wire) \in Nat /\ DOMAIN wire = 1 .. Len(wire) /\ wire' \in Seq(S \cup {m})
      /\ Len(wire') = Len(wire) + 1 /\ DOMAIN wire' = 1 .. Len(wire')
      /\ wire'[Len(wire')] = m /\ \A i \in DOMAIN wire : wire'[i] = wire[i]
  BY <1>1
<1>3. \A i \in DOMAIN wire' : i \in DOMAIN wire \/ i = Len(wire')
  BY <1>2
<1>4. WireOrdered'
  <2>1. \A i \in DOMAIN wire' : wire'[i].quote \in Refs \cup {NoRef} /\ wire'[i].at \in 0 .. now
    BY <1>2, <1>3 DEF QuoteInv, WireOrdered
  <2>2. ASSUME NEW i \in DOMAIN wire', NEW j \in DOMAIN wire', i < j
        PROVE  wire'[i].at <= wire'[j].at
    <3>1. i \in DOMAIN wire /\ wire[i].at <= now
      BY <1>2, <2>2 DEF QuoteInv, WireOrdered
    <3>. QED  BY <1>2, <1>3, <2>2, <3>1 DEF QuoteInv, WireOrdered
  <2>. QED  BY <1>2, <2>1, <2>2 DEF WireOrdered
<1>5. \A i \in DOMAIN wire' : IsFiniteSet(OthersFrom(i)') /\ Cardinality(OthersFrom(i)') \in Nat
  <2>. SUFFICES ASSUME NEW i \in DOMAIN wire' PROVE IsFiniteSet(OthersFrom(i)')
    BY FS_CardinalityType
  <2>1. OthersFrom(i)' \subseteq {wire'[k].quote : k \in i .. Len(wire')}
    BY DEF OthersFrom
  <2>2. IsFiniteSet({wire'[k].quote : k \in i .. Len(wire')})
    <3>. DEFINE I == i .. Len(wire')
                T == {wire'[k].quote : k \in I}
                f == [k \in I |-> wire'[k].quote]
    <3>1. f \in Surjection(I, T)
      BY DEF Surjection
    <3>2. IsFiniteSet(I)
      BY <1>2, FS_Interval
    <3>3. IsFiniteSet(T)
      <4>. HIDE DEF f, I, T
      <4>. QED  BY <3>1, <3>2, FS_Surjection
    <3>. QED  BY <3>3
  <2>. QED  BY <2>1, <2>2, FS_Subset
<1>6. ASSUME NEW i \in DOMAIN wire PROVE OthersFrom(i) \subseteq OthersFrom(i)'
  <2>1. \A k \in i .. Len(wire) : k \in i .. Len(wire') /\ wire'[k] = wire[k]
    BY <1>2, <1>6
  <2>. QED  BY <1>2, <2>1 DEF OthersFrom
<1>7. \A i \in DOMAIN wire : Cardinality(OthersFrom(i)) <= Cardinality(OthersFrom(i)')
  BY <1>2, <1>3, <1>5, <1>6, FS_Subset
<1>. QED  BY <1>2, <1>4, <1>5, <1>6, <1>7

\* A message without a quote changes nothing for those before it, and what the
\* clean-up takes out of the store has expired.
LEMMA SilentQuote ==
    ASSUME QuoteInv, NEW m, wire' = Append(wire, m), UNCHANGED <<now, job, inserted>>,
           m.at = now, m.quote = NoRef,
           store' \subseteq store, \A e \in store \ store' : e.expiresAt <= now
    PROVE  QuoteInv'
<1>1. /\ WireOrdered' /\ Len(wire) \in Nat /\ DOMAIN wire = 1 .. Len(wire)
      /\ Len(wire') = Len(wire) + 1 /\ DOMAIN wire' = 1 .. Len(wire')
      /\ wire'[Len(wire')] = m /\ \A i \in DOMAIN wire : wire'[i] = wire[i]
      /\ \A i \in DOMAIN wire : /\ OthersFrom(i) \subseteq OthersFrom(i)'
                                /\ Cardinality(OthersFrom(i)) <= Cardinality(OthersFrom(i)')
      /\ \A i \in DOMAIN wire' : IsFiniteSet(OthersFrom(i)') /\ Cardinality(OthersFrom(i)') \in Nat
  BY OneMore
<1>2. \A i \in DOMAIN wire' : i \in DOMAIN wire \/ i = Len(wire')
  BY <1>1
<1>3. NoRef \notin Refs /\ MaxKeys \in Nat /\ TtlMs \in Nat /\ now \in Nat
  BY SenderConstants, TtlDbConstants DEF QuoteInv
<1>4. ASSUME NEW e \in store, NEW i \in DOMAIN wire'
      PROVE  SetBy(e, i)' <=> i \in DOMAIN wire /\ SetBy(e, i)
  <2>1. e.key # NoRef
    BY <1>3 DEF QuoteInv, StoreOrdered
  <2>2. CASE i = Len(wire')
    BY <1>1, <2>1, <2>2 DEF SetBy
  <2>3. CASE i \in DOMAIN wire
    <3>1. (\A k \in i + 1 .. Len(wire') : wire'[k].quote # e.key)
            <=> (\A k \in i + 1 .. Len(wire) : wire[k].quote # e.key)
      <4>1. \A k \in i + 1 .. Len(wire) : k \in i + 1 .. Len(wire') /\ wire'[k] = wire[k]
        BY <1>1, <2>3
      <4>2. \A k \in i + 1 .. Len(wire') : k = Len(wire') \/ k \in i + 1 .. Len(wire)
        BY <1>1, <2>3
      <4>. QED  BY <1>1, <2>1, <4>1, <4>2
    <3>. QED  BY <1>1, <2>3, <3>1 DEF SetBy
  <2>. QED  BY <1>2, <2>2, <2>3
<1>5. StoreOrdered'
  <2>1. IsFiniteSet(store')
    BY FS_Subset DEF QuoteInv, StoreOrdered
  <2>2. ASSUME NEW e \in store' PROVE \E i \in DOMAIN wire' : SetBy(e, i)'
    <3>1. PICK i \in DOMAIN wire : SetBy(e, i)
      BY DEF QuoteInv, StoreOrdered
    <3>. QED  BY <1>1, <1>4, <3>1
  <2>. QED  BY <1>4, <2>1, <2>2 DEF QuoteInv, StoreOrdered
<1>6. Apart'
  <2>. SUFFICES ASSUME NEW i \in DOMAIN wire', NEW j \in DOMAIN wire', i < j,
                       wire'[i].quote = wire'[j].quote, wire'[i].quote # NoRef
                PROVE  \/ wire'[j].at - wire'[i].at >= TtlMs
                       \/ Cardinality({q \in Refs \ {wire'[i].quote} :
                                         q \in {wire'[k].quote : k \in i .. j}}) >= MaxKeys
    BY DEF Apart
  <2>1. i \in DOMAIN wire /\ j \in DOMAIN wire
    BY <1>1, <1>2
  <2>2. {wire'[k].quote : k \in i .. j} = {wire[k].quote : k \in i .. j}
    BY <1>1, <2>1
  <2>. QED  BY <1>1, <2>1, <2>2 DEF QuoteInv, Apart
<1>7. ASSUME NEW i \in DOMAIN wire', wire'[i].quote # NoRef PROVE Remembered(i)'
  <2>1. i \in DOMAIN wire /\ Remembered(i) /\ wire'[i] = wire[i] /\ wire[i].at \in Nat
    BY <1>1, <1>2, <1>7 DEF QuoteInv, WireOrdered
  <2>2. CASE Cardinality(OthersFrom(i)) >= MaxKeys
    <3>1. Cardinality(OthersFrom(i)) \in Nat
      BY <1>1, <2>1, FS_Subset, FS_CardinalityType
    <3>. QED  BY <1>1, <1>3, <2>1, <2>2, <3>1 DEF Remembered
  <2>3. ASSUME NEW e \in store, e.key = wire[i].quote, e.expiresAt >= wire[i].at + TtlMs
        PROVE  Remembered(i)'
    <3>1. e.expiresAt \in Nat
      BY <1>3, <2>3 DEF QuoteInv, StoreOrdered, WireOrdered, SetBy
    <3>2. CASE e \in store'
      BY <2>1, <2>3, <3>2 DEF Remembered
    <3>3. CASE e.expiresAt <= now
      BY <1>3, <2>1, <2>3, <3>1, <3>3 DEF Remembered
    <3>. QED  BY <3>2, <3>3
  <2>. QED  BY <2>1, <2>2, <2>3 DEF Remembered
<1>. QED  BY <1>1, <1>5, <1>6, <1>7 DEF QuoteInv

\* A quote is recorded.  What the store forgets for it has expired, or is
\* followed by quotes of as many others as the store has room for: those of the
\* entries that stay, which were set later.
LEMMA NewQuote ==
    ASSUME QuoteInv, NEW r \in Refs, NEW m, wire' = Append(wire, m), UNCHANGED <<now, job>>,
           m.at = now, m.quote = r, ~Has(r), HasOrSet(r)
    PROVE  QuoteInv'
<1>. DEFINE n == Len(wire')
            new == [key |-> r, expiresAt |-> now + TtlMs, nr |-> inserted]
            kept == {e \in AfterCleanup : e.key # r}
            all == kept \cup {new}
<1>1. /\ WireOrdered' /\ Len(wire) \in Nat /\ DOMAIN wire = 1 .. Len(wire)
      /\ n = Len(wire) + 1 /\ DOMAIN wire' = 1 .. n
      /\ wire'[n] = m /\ \A i \in DOMAIN wire : wire'[i] = wire[i]
      /\ \A i \in DOMAIN wire : /\ OthersFrom(i) \subseteq OthersFrom(i)'
                                /\ Cardinality(OthersFrom(i)) <= Cardinality(OthersFrom(i)')
      /\ \A i \in DOMAIN wire' : IsFiniteSet(OthersFrom(i)') /\ Cardinality(OthersFrom(i)') \in Nat
  BY OneMore
<1>2. store' = Evicted(all) /\ inserted' = inserted + 1
  BY DEF HasOrSet
<1>3. \A i \in DOMAIN wire' : i \in DOMAIN wire \/ i = n
  BY <1>1
<1>4. r # NoRef /\ MaxKeys \in Nat \ {0} /\ TtlMs \in Nat /\ now \in Nat /\ inserted \in Nat
  BY SenderConstants, TtlDbConstants DEF QuoteInv, StoreOrdered
<1>5. \A i \in DOMAIN wire : wire[i].at \in Nat /\ wire[i].at <= now
  BY <1>4 DEF QuoteInv, WireOrdered
<1>6. \A e \in store : e.expiresAt \in Nat /\ e.nr \in Nat /\ e.nr < inserted /\ e.key \in Refs
  BY <1>4, <1>5 DEF QuoteInv, StoreOrdered, SetBy
<1>7. /\ kept \subseteq store /\ \A e \in kept : e.key # r
      /\ \A e \in store \ kept : e.expiresAt <= now
  BY <1>4, <1>6 DEF AfterCleanup, Has, IsValid
<1>8. new.key = r /\ new.expiresAt = now + TtlMs /\ new.nr = inserted
  OBVIOUS
<1>. HIDE DEF new, kept
<1>9. ASSUME NEW e \in kept, NEW i \in DOMAIN wire'
      PROVE  SetBy(e, i)' <=> i \in DOMAIN wire /\ SetBy(e, i)
  <2>1. CASE i = n
    BY <1>1, <1>7, <2>1 DEF SetBy
  <2>2. CASE i \in DOMAIN wire
    <3>1. (\A k \in i + 1 .. n : wire'[k].quote # e.key)
            <=> (\A k \in i + 1 .. Len(wire) : wire[k].quote # e.key)
      <4>1. \A k \in i + 1 .. Len(wire) : k \in i + 1 .. n /\ wire'[k] = wire[k]
        BY <1>1, <2>2
      <4>2. \A k \in i + 1 .. n : k = n \/ k \in i + 1 .. Len(wire)
        BY <1>1, <2>2
      <4>. QED  BY <1>1, <1>7, <4>1, <4>2
    <3>. QED  BY <1>1, <2>2, <3>1 DEF SetBy
  <2>. QED  BY <1>3, <2>1, <2>2
<1>10. ASSUME NEW e, e = new, NEW i \in DOMAIN wire' PROVE SetBy(e, i)' <=> i = n
  <2>1. CASE i = n
    BY <1>1, <1>8, <1>10, <2>1 DEF SetBy
  <2>2. CASE i \in DOMAIN wire
    <3>1. n \in i + 1 .. n /\ i # n
      BY <1>1, <2>2
    <3>. QED  BY <1>1, <1>8, <1>10, <3>1 DEF SetBy
  <2>. QED  BY <1>3, <2>1, <2>2
<1>11. /\ IsFiniteSet(all)
       /\ \A e \in all : e.key \in Refs /\ e.nr \in Nat /\ e.nr < inserted' /\ e.expiresAt \in Nat
       /\ \A e, f \in all : e.key = f.key \/ e.nr = f.nr => e = f
  <2>1. IsFiniteSet(kept)
    BY <1>7, FS_Subset DEF QuoteInv, StoreOrdered
  <2>2. IsFiniteSet(all)
    BY <2>1, FS_AddElement
  <2>3. \A e, f \in kept : e.key = f.key \/ e.nr = f.nr => e = f
    BY <1>7 DEF QuoteInv, StoreOrdered
  <2>4. \A e \in kept : e.key # new.key /\ e.nr # new.nr
    BY <1>4, <1>6, <1>7, <1>8
  <2>5. \A e \in all : e.key \in Refs /\ e.nr \in Nat /\ e.nr < inserted' /\ e.expiresAt \in Nat
    BY <1>2, <1>4, <1>6, <1>7, <1>8
  <2>. QED  BY <2>2, <2>3, <2>4, <2>5
<1>12. ASSUME NEW e \in all PROVE \E i \in DOMAIN wire' : SetBy(e, i)'
  <2>1. CASE e = new
    BY <1>1, <1>10, <2>1
  <2>2. CASE e \in kept
    <3>1. PICK i \in DOMAIN wire : SetBy(e, i)
      BY <1>7, <2>2 DEF QuoteInv, StoreOrdered
    <3>. QED  BY <1>1, <1>9, <2>2, <3>1
  <2>. QED  BY <2>1, <2>2
<1>13. ASSUME NEW e \in all, NEW f \in all, NEW i \in DOMAIN wire', NEW j \in DOMAIN wire',
              e.nr < f.nr, SetBy(e, i)', SetBy(f, j)'
       PROVE  i < j
  <2>1. e # new
    BY <1>4, <1>6, <1>7, <1>8, <1>13
  <2>2. i \in DOMAIN wire /\ SetBy(e, i) /\ e \in kept
    BY <1>9, <1>13, <2>1
  <2>3. CASE f = new
    BY <1>1, <1>10, <1>13, <2>2, <2>3
  <2>4. CASE f \in kept
    <3>1. j \in DOMAIN wire /\ SetBy(f, j)
      BY <1>9, <1>13, <2>4
    <3>. QED  BY <1>7, <1>13, <2>2, <2>4, <3>1 DEF QuoteInv, StoreOrdered
  <2>. QED  BY <2>3, <2>4
<1>. HIDE DEF all, n
<1>14. store' \subseteq all
  BY <1>2 DEF Evicted
<1>15. StoreOrdered'
  BY <1>2, <1>4, <1>11, <1>12, <1>13, <1>14, FS_Subset DEF StoreOrdered
<1>16. ASSUME NEW e \in all, e \notin store', NEW i \in DOMAIN wire', wire'[i].quote = e.key
       PROVE  Cardinality(OthersFrom(i)') >= MaxKeys
  <2>1. Cardinality(all) > MaxKeys /\ \A f \in all : ~Before(f, e)
    BY <1>2, <1>4, <1>11, <1>16, FS_CardinalityType DEF Evicted
  <2>2. PICK s \in DOMAIN wire' : SetBy(e, s)'
    BY <1>12
  <2>3. i <= s
    <3>1. i > s => i \in s + 1 .. n
      BY <1>1
    <3>. QED  BY <1>1, <1>16, <2>2, <3>1 DEF SetBy, n
  <2>. DEFINE T == all \ {e}
  <2>4. ASSUME NEW f \in T PROVE f.key \in OthersFrom(i)'
    <3>1. PICK t \in DOMAIN wire' : SetBy(f, t)'
      BY <1>12
    <3>2. e.nr # f.nr /\ f.key # e.key /\ f.key \in Refs
      BY <1>11
    <3>3. ~(f.nr < e.nr)
      <4>. SUFFICES ASSUME f.nr < e.nr PROVE FALSE
        OBVIOUS
      <4>1. t < s
        BY <1>13, <2>2, <3>1
      <4>2. wire'[t].at <= wire'[s].at /\ wire'[t].at \in Nat /\ wire'[s].at \in Nat
        BY <1>1, <4>1 DEF WireOrdered
      <4>3. f.expiresAt <= e.expiresAt
        BY <1>4, <2>2, <3>1, <4>2 DEF SetBy
      <4>. QED  BY <1>11, <2>1, <4>3 DEF Before
    <3>4. s < t
      BY <1>11, <1>13, <2>2, <3>1, <3>2, <3>3
    <3>5. t \in i .. n /\ wire'[t].quote = f.key
      BY <1>1, <2>3, <3>1, <3>4 DEF SetBy
    <3>. QED  BY <1>16, <3>2, <3>5 DEF OthersFrom, n
  <2>. DEFINE key == [f \in T |-> f.key]
  <2>5. key \in Injection(T, OthersFrom(i)')
    BY <1>11, <2>4 DEF Injection, IsInjective
  <2>. HIDE DEF key, T
  <2>6. Cardinality(T) <= Cardinality(OthersFrom(i)')
    BY <1>1, <2>5, FS_Injection
  <2>7. Cardinality(T) = Cardinality(all) - 1 /\ Cardinality(all) \in Nat
    BY <1>11, FS_RemoveElement, FS_CardinalityType DEF T
  <2>. QED  BY <1>1, <1>4, <2>1, <2>6, <2>7
<1>17. Apart'
  <2>. SUFFICES ASSUME NEW i \in DOMAIN wire', NEW j \in DOMAIN wire', i < j,
                       wire'[i].quote = wire'[j].quote, wire'[i].quote # NoRef
                PROVE  \/ wire'[j].at - wire'[i].at >= TtlMs
                       \/ Cardinality({q \in Refs \ {wire'[i].quote} :
                                         q \in {wire'[k].quote : k \in i .. j}}) >= MaxKeys
    BY DEF Apart
  <2>1. i \in DOMAIN wire /\ wire'[i] = wire[i]
    BY <1>1
  <2>2. CASE j \in DOMAIN wire
    <3>1. {wire'[k].quote : k \in i .. j} = {wire[k].quote : k \in i .. j}
      BY <1>1, <2>1, <2>2
    <3>. QED  BY <1>1, <2>1, <2>2, <3>1 DEF QuoteInv, Apart
  <2>3. CASE j = n
    <3>1. wire[i].quote = r /\ Remembered(i)
      BY <1>1, <1>4, <2>1, <2>3 DEF QuoteInv
    <3>2. CASE Cardinality(OthersFrom(i)) >= MaxKeys
      <4>1. OthersFrom(i)' = {q \in Refs \ {wire'[i].quote} : q \in {wire'[k].quote : k \in i .. j}}
        BY <2>3 DEF OthersFrom, n
      <4>2. Cardinality(OthersFrom(i)) \in Nat
        BY <1>1, <2>1, FS_Subset, FS_CardinalityType
      <4>3. Cardinality(OthersFrom(i)') >= MaxKeys
        BY <1>1, <1>4, <2>1, <3>2, <4>2
      <4>. QED  BY <4>1, <4>3
    <3>3. ASSUME NEW e \in store, e.key = r, e.expiresAt >= wire[i].at + TtlMs
          PROVE  wire'[j].at - wire'[i].at >= TtlMs
      <4>1. e.expiresAt <= now
        BY <1>7, <3>3
      <4>. QED  BY <1>1, <1>4, <1>5, <1>6, <2>1, <2>3, <3>3, <4>1
    <3>4. CASE now - wire[i].at >= TtlMs
      BY <1>1, <2>1, <2>3, <3>4
    <3>. QED  BY <3>1, <3>2, <3>3, <3>4 DEF Remembered
  <2>. QED  BY <1>3, <2>2, <2>3
<1>18. ASSUME NEW i \in DOMAIN wire', wire'[i].quote # NoRef PROVE Remembered(i)'
  <2>1. ASSUME NEW e \in all, e.key = wire'[i].quote, e.expiresAt >= wire'[i].at + TtlMs
        PROVE  Remembered(i)'
    BY <1>16, <2>1 DEF Remembered
  <2>2. CASE wire'[i].quote = r
    <3>1. wire'[i].at \in Nat /\ wire'[i].at <= now
      BY <1>1, <1>3, <1>4, <1>5
    <3>2. new \in all
      BY DEF all
    <3>. QED  BY <1>4, <1>8, <2>1, <2>2, <3>1, <3>2
  <2>3. CASE wire'[i].quote # r
    <3>1. i \in DOMAIN wire /\ wire'[i] = wire[i] /\ Remembered(i)
      BY <1>1, <1>3, <1>18, <2>3 DEF QuoteInv
    <3>2. CASE Cardinality(OthersFrom(i)) >= MaxKeys
      <4>1. Cardinality(OthersFrom(i)) \in Nat
        BY <1>1, <3>1, FS_Subset, FS_CardinalityType
      <4>. QED  BY <1>1, <1>4, <3>1, <3>2, <4>1 DEF Remembered
    <3>3. ASSUME NEW e \in store, e.key = wire[i].quote, e.expiresAt >= wire[i].at + TtlMs
          PROVE  Remembered(i)'
      <4>1. CASE e \in kept
        BY <2>1, <3>1, <3>3, <4>1 DEF all
      <4>2. CASE e.expiresAt <= now
        BY <1>4, <1>5, <1>6, <3>1, <3>3, <4>2 DEF Remembered
      <4>. QED  BY <1>7, <4>1, <4>2
    <3>. QED  BY <3>1, <3>2, <3>3 DEF Remembered
  <2>. QED  BY <2>2, <2>3
<1>. QED  BY <1>1, <1>15, <1>17, <1>18 DEF QuoteInv

\* A message is quoted, if at all, when its quote has been forgotten.
LEMMA SendQuote ==
    ASSUME Mode = "first", QuoteInv, NEW c \in Callers, Send(c), UNCHANGED now
    PROVE  QuoteInv'
<1>. DEFINE r == job[c].ref
            m == [by |-> c, body |-> body[c], to |-> target[c],
                  written |-> connected, quote |-> IF Quotes(c) THEN r ELSE NoRef, at |-> now,
                  trace |-> r, seq |-> IF r = NoRef THEN 0 ELSE seqCounter[r] + 1]
<1>1. /\ wire' = Append(wire, m) /\ UNCHANGED job
      /\ IF Classified(c) = "first" THEN HasOrSet(r) ELSE UNCHANGED storeVars
  BY DEF Send
<1>2. m.at = now /\ m.quote = IF Quotes(c) THEN r ELSE NoRef
  OBVIOUS
<1>3. Classified(c) = "first" => r \in Refs
  BY DEF Classified, QuoteInv
<1>. HIDE DEF m
<1>4. CASE Quotes(c)
  BY <1>1, <1>2, <1>3, <1>4, NewQuote DEF Quotes, Classified
<1>5. CASE ~Quotes(c)
  <2>1. inserted' = inserted /\ store' \in {store, AfterCleanup}
    BY <1>1, <1>5 DEF Quotes, HasOrSet, storeVars
  <2>2. ASSUME NEW e \in store, e \notin AfterCleanup PROVE e.expiresAt <= now
    <3>1. e.expiresAt \in Nat /\ now \in Nat
      BY TtlDbConstants DEF QuoteInv, StoreOrdered, WireOrdered, SetBy
    <3>. QED  BY <2>2, <3>1 DEF AfterCleanup, IsValid
  <2>3. AfterCleanup \subseteq store
    BY DEF AfterCleanup
  <2>. QED  BY <1>1, <1>2, <1>5, <2>1, <2>2, <2>3, SilentQuote
<1>. QED  BY <1>4, <1>5

\* Every step keeps the store true to the quotes.
LEMMA QuoteNext == Mode = "first" /\ QuoteInv /\ [Next]_vars => QuoteInv'
<1>. SUFFICES ASSUME Mode = "first", QuoteInv, [Next]_vars PROVE QuoteInv'
  OBVIOUS
<1>1. CASE Environment \/ UNCHANGED vars
  <2>1. UNCHANGED <<job, store, inserted, wire>> /\ now' \in {now, now + 1}
    BY <1>1
    DEF Environment, SpeakerSeen, Tick, vars, senderVars, callVars, traceVars, storeVars
  <2>2. now' \in Nat /\ now' >= now
    BY <2>1 DEF QuoteInv
  <2>. QED  BY <2>1, <2>2, QuietQuote DEF QuoteInv
<1>2. ASSUME NEW c \in Callers, Turn(c), UNCHANGED now PROVE QuoteInv'
  <2>1. CASE \E j \in Jobs : Begin(c, j)
    <3>1. PICK j \in Jobs : Begin(c, j)
      BY <2>1
    <3>2. j.ref \in Refs \cup {NoRef}
      BY SenderConstants DEF JobType
    <3>3. job' = [job EXCEPT ![c] = j] /\ UNCHANGED <<store, inserted, wire>>
      BY <3>1 DEF Begin, storeVars
    <3>. QED  BY <1>2, <3>2, <3>3, QuietQuote DEF QuoteInv
  <2>2. CASE Send(c)
    BY <1>2, <2>2, SendQuote
  <2>3. CASE UNCHANGED <<job, store, inserted, wire>>
    BY <1>2, <2>3, QuietQuote DEF QuoteInv
  <2>4. CASE Prepare(c) \/ StickerUnknown(c) \/ LooksUpUid(c) \/ NoLookUp(c)
    BY <2>3, <2>4 DEF Prepare, StickerUnknown, LooksUpUid, NoLookUp, storeVars
  <2>5. CASE \E ok \in BOOLEAN :
               \/ Loaded(c, ok) \/ Downloaded(c, ok) \/ Uploaded(c, ok)
               \/ MentionResolved(c, ok) \/ UidResolved(c, ok) \/ Answered(c, ok)
    BY <2>3, <2>5
    DEF Loaded, Downloaded, Uploaded, MediaStep, MentionResolved, UidResolved, Answered,
      storeVars
  <2>. QED  BY <1>2, <2>1, <2>2, <2>4, <2>5 DEF Turn
<1>. QED  BY <1>1, <1>2 DEF Next

\* With replyToMode "first", a message is quoted again only an hour later, or
\* when as many others were quoted meanwhile as the store has room for, however
\* many calls decide on it at once.
THEOREM QuotesAreApart == Spec => []QuotedOnce
<1>1. QuoteInv => QuotedOnce
  BY SenderConstants DEF QuoteInv, Apart, QuotedOnce, Quoting
<1>2. CASE Mode = "first"
  BY <1>1, <1>2, QuoteInit, QuoteNext, PTL DEF Spec
<1>3. CASE Mode # "first"
  <2>1. QuotedOnce
    BY <1>3 DEF QuotedOnce
  <2>. QED  BY <2>1, PTL
<1>. QED  BY <1>2, <1>3
===============================================================================
