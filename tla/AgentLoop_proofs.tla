--------------------------- MODULE AgentLoop_proofs ---------------------------
(* Proofs about AgentLoop, for every configuration (any workers, rows,        *)
(* servers, limits and rates), every prompt and response length, and every    *)
(* size of a generation or an observation; and, at the end, about             *)
(* RewardRouter, for every number of workers and attempts and every finite    *)
(* set of requests.                                                           *)
EXTENDS AgentLoop, RewardRouter, FiniteSetTheorems, SequenceTheorems, TLAPS

Bits   == {0, 1}
Kinds  == {"prompt", "gen", "tool", "user", "pad", "logp"}
Phases == {"queued", "acquiring", "executing", "returned", "answered"}
States == {"pending", "waiting", "tools", "interacting", "terminated", "scored", "error"}

SessionRecord ==
  [state : States, server : config.servers \cup {0}, ids : Seq(Kinds), mask : Seq(Bits),
   logp : Seq(Kinds), turns : Nat, users : Nat]

\* What the proofs need of the types.
Typed ==
  /\ config \in Configs
  /\ session \in [Sessions -> SessionRecord]
  /\ call \in [Sessions -> Seq(Phases)]
  /\ tokens \in Nat /\ releases \in Nat

LEMMA ConfigFacts ==
  ASSUME config \in Configs
  PROVE  /\ config.parallel \in Nat /\ config.rate \in Nat
         /\ {config.freeCache, config.interaction, config.logprobs} \subseteq BOOLEAN
BY ConfigsAssumption DEF ValidConfig

\* A repetition is a sequence of its length.
LEMMA RepeatSeq ==
  ASSUME NEW S, NEW x \in S, NEW n \in Nat
  PROVE  Repeat(x, n) \in Seq(S) /\ Len(Repeat(x, n)) = n
<1>1. Repeat(x, n) \in [1..n -> S]
  BY DEF Repeat
<1> QED BY <1>1

\* Appending a sequence adds its length.
LEMMA Appended ==
  ASSUME NEW S, NEW a \in Seq(S), NEW b \in Seq(S), NEW n \in Nat, Len(b) = n
  PROVE  a \o b \in Seq(S) /\ Len(a \o b) = Len(a) + n
BY ConcatProperties

\* A row with its three lists replaced.
Listed(sess, ids, mask, logp) == [sess EXCEPT !.ids = ids, !.mask = mask, !.logp = logp]

LEMMA ListsReplaced ==
  ASSUME NEW sess \in SessionRecord, NEW ids \in Seq(Kinds), NEW mask \in Seq(Bits),
         NEW logp \in Seq(Kinds)
  PROVE  /\ Listed(sess, ids, mask, logp) \in SessionRecord
         /\ Listed(sess, ids, mask, logp).ids = ids
         /\ Listed(sess, ids, mask, logp).mask = mask
         /\ Listed(sess, ids, mask, logp).logp = logp
         /\ Listed(sess, ids, mask, logp).state = sess.state
         /\ Listed(sess, ids, mask, logp).server = sess.server
         /\ Listed(sess, ids, mask, logp).turns = sess.turns
         /\ Listed(sess, ids, mask, logp).users = sess.users
<1> DEFINE one   == [sess EXCEPT !.ids = ids]
           two   == [one EXCEPT !.mask = mask]
           three == [two EXCEPT !.logp = logp]
<1>1. /\ one \in SessionRecord /\ one.ids = ids
      /\ one.state = sess.state /\ one.server = sess.server
      /\ one.turns = sess.turns /\ one.users = sess.users
  BY DEF SessionRecord
<1> HIDE DEF one
<1>2. /\ two \in SessionRecord /\ two.ids = one.ids /\ two.mask = mask
      /\ two.state = one.state /\ two.server = one.server
      /\ two.turns = one.turns /\ two.users = one.users
  BY <1>1 DEF SessionRecord
<1> HIDE DEF two
<1>3. /\ three \in SessionRecord /\ three.ids = two.ids /\ three.mask = two.mask
      /\ three.logp = logp
      /\ three.state = two.state /\ three.server = two.server
      /\ three.turns = two.turns /\ three.users = two.users
  BY <1>2 DEF SessionRecord
<1> HIDE DEF three
<1>4. Listed(sess, ids, mask, logp) = three
  BY DEF one, two, three, Listed
<1> QED BY <1>1, <1>2, <1>3, <1>4

\* Counting a turn of either side.
LEMMA Counted ==
  ASSUME NEW sess \in SessionRecord, NEW k \in Nat
  PROVE  /\ [sess EXCEPT !.turns = k] \in SessionRecord
         /\ [sess EXCEPT !.turns = k].ids = sess.ids
         /\ [sess EXCEPT !.turns = k].mask = sess.mask
         /\ [sess EXCEPT !.turns = k].logp = sess.logp
         /\ [sess EXCEPT !.turns = k].server = sess.server
         /\ [sess EXCEPT !.users = k] \in SessionRecord
         /\ [sess EXCEPT !.users = k].ids = sess.ids
         /\ [sess EXCEPT !.users = k].mask = sess.mask
         /\ [sess EXCEPT !.users = k].logp = sess.logp
         /\ [sess EXCEPT !.users = k].state = sess.state
         /\ [sess EXCEPT !.users = k].server = sess.server
BY DEF SessionRecord

\* n tokens of a kind were appended to the three lists.
MoreLogp(logp, kind, n) ==
  IF kind = "gen" THEN IF config.logprobs THEN logp \o Repeat("logp", n) ELSE logp
                  ELSE IF logp = <<>> THEN logp ELSE logp \o Repeat("pad", n)

Grown(new, old, kind, n) ==
  /\ new.ids = old.ids \o Repeat(kind, n)
  /\ new.mask = old.mask \o Repeat(IF kind = "gen" THEN 1 ELSE 0, n)
  /\ new.logp = MoreLogp(old.logp, kind, n)

SameLists(new, old) == new.ids = old.ids /\ new.mask = old.mask /\ new.logp = old.logp

\* An observation keeps the record, and adds its length to ids and mask alike.
LEMMA ObserveGrows ==
  ASSUME NEW sess \in SessionRecord, NEW kind \in Kinds, kind # "gen", NEW n \in Nat
  PROVE  /\ Observe(sess, kind, n) \in SessionRecord
         /\ Grown(Observe(sess, kind, n), sess, kind, n)
         /\ Len(Observe(sess, kind, n).ids) = Len(sess.ids) + n
         /\ Len(Observe(sess, kind, n).mask) = Len(sess.mask) + n
         /\ Observe(sess, kind, n).state = sess.state
         /\ Observe(sess, kind, n).server = sess.server
<1>1. /\ Repeat(kind, n) \in Seq(Kinds) /\ Len(Repeat(kind, n)) = n
      /\ Repeat(0, n) \in Seq(Bits) /\ Len(Repeat(0, n)) = n
      /\ Repeat("pad", n) \in Seq(Kinds)
  <2>1. 0 \in Bits /\ {kind, "pad"} \subseteq Kinds
    BY DEF Bits, Kinds
  <2> QED BY <2>1, RepeatSeq
<1> DEFINE ids  == sess.ids \o Repeat(kind, n)
           mask == sess.mask \o Repeat(0, n)
           logp == IF sess.logp = <<>> THEN sess.logp ELSE sess.logp \o Repeat("pad", n)
           new  == [sess EXCEPT !.ids = ids, !.mask = mask, !.logp = logp, !.users = @ + 1]
<1>2. sess.ids \in Seq(Kinds) /\ sess.mask \in Seq(Bits) /\ sess.logp \in Seq(Kinds)
  BY DEF SessionRecord
<1>3. ids \in Seq(Kinds) /\ Len(ids) = Len(sess.ids) + n
  BY <1>1, <1>2, Appended
<1>4. mask \in Seq(Bits) /\ Len(mask) = Len(sess.mask) + n
  BY <1>1, <1>2, Appended
<1>5. logp \in Seq(Kinds)
  BY <1>1, <1>2
<1> DEFINE listed == Listed(sess, ids, mask, logp)
<1> HIDE DEF ids, mask, logp
<1>6. /\ listed \in SessionRecord /\ listed.ids = ids /\ listed.mask = mask
      /\ listed.logp = logp /\ listed.state = sess.state /\ listed.server = sess.server
      /\ listed.users = sess.users
  BY <1>3, <1>4, <1>5, ListsReplaced
<1>7. new = [listed EXCEPT !.users = sess.users + 1] /\ sess.users \in Nat
  BY DEF Listed, SessionRecord
<1> HIDE DEF listed, new
<1>8. /\ new \in SessionRecord /\ new.ids = ids /\ new.mask = mask
      /\ new.logp = logp /\ new.state = sess.state /\ new.server = sess.server
  <2> DEFINE k == sess.users + 1
  <2>1. k \in Nat
    BY <1>7
  <2>2. new = [listed EXCEPT !.users = k]
    BY <1>7
  <2> HIDE DEF k
  <2> QED BY <1>6, <2>1, <2>2, Counted
<1>9. Observe(sess, kind, n) = new
  BY DEF Observe, new, ids, mask, logp
<1>10. Grown(new, sess, kind, n)
  BY <1>8 DEF Grown, MoreLogp, ids, mask, logp
<1> QED BY <1>3, <1>4, <1>8, <1>9, <1>10

LEMMA AskingKeeps ==
  ASSUME NEW sess \in SessionRecord
  PROVE  /\ Asking(sess) \in SessionRecord
         /\ SameLists(Asking(sess), sess)
         /\ Asking(sess).server = sess.server
         /\ Asking(sess).state \in {"waiting", "error"}
         /\ Room(sess.ids) > 0 => Asking(sess).state = "waiting"
BY DEF Asking, SessionRecord, States, SameLists

-----------------------------------------------------------------------------
(* What a step does to one row: the only way a row of a given state goes on.  *)
RowStep(s) ==
  \/ HandlePending(s) \/ HandleGenerating(s) \/ ComputeScore(s)
  \/ HandleProcessingTools(s) \/ HandleInteracting(s)

CallStep(c) == StartThread(c) \/ Acquire(c) \/ Execute(c) \/ AnswerCall(c)

ManagerStep == (\E v \in config.servers : WakeUp(v) \/ Sleep(v)) \/ DispatchChunks \/ Collect \/ Raise

LEMMA PendingRow ==
  ASSUME Typed, NEW s \in Sessions, HandlePending(s)
  PROVE  \E n \in 1..PromptLength, v \in config.servers, new \in SessionRecord :
           /\ session' = [session EXCEPT ![s] = new]
           /\ new.state \in {"waiting", "error"} /\ new.server = v
           /\ new.ids = Repeat("prompt", n) /\ Len(new.ids) = n
           /\ new.mask = session[s].mask /\ new.logp = session[s].logp
           /\ Room(new.ids) > 0 => new.state = "waiting"
<1>1. PICK n \in 1..PromptLength, v \in config.servers :
        session' = [session EXCEPT ![s] =
            Asking([@ EXCEPT !.ids = Repeat("prompt", n), !.server = v])]
  BY DEF HandlePending
<1> DEFINE asked == [session[s] EXCEPT !.ids = Repeat("prompt", n), !.server = v]
<1>2. n \in Nat
  BY LengthsAssumption
<1>3. Repeat("prompt", n) \in Seq(Kinds) /\ Len(Repeat("prompt", n)) = n
  BY <1>2, RepeatSeq DEF Kinds
<1>4. session[s] \in SessionRecord
  BY DEF Typed
<1>5. /\ asked \in SessionRecord /\ asked.ids = Repeat("prompt", n) /\ asked.server = v
      /\ asked.mask = session[s].mask /\ asked.logp = session[s].logp
  BY <1>3, <1>4 DEF SessionRecord
<1>6. session' = [session EXCEPT ![s] = Asking(asked)]
  BY <1>1
<1> HIDE DEF asked
<1> DEFINE new == Asking(asked)
<1>7. /\ new \in SessionRecord /\ new.state \in {"waiting", "error"} /\ new.server = v
      /\ new.ids = Repeat("prompt", n) /\ Len(new.ids) = n
      /\ new.mask = session[s].mask /\ new.logp = session[s].logp
      /\ Room(new.ids) > 0 => new.state = "waiting"
  BY <1>3, <1>5, AskingKeeps DEF SameLists
<1> HIDE DEF new
<1> QED BY <1>6, <1>7 DEF new

LEMMA GeneratingRow ==
  ASSUME Typed, NEW s \in Sessions, HandleGenerating(s)
  PROVE  \E n \in 1..MaxChunk, called \in BOOLEAN, new \in SessionRecord :
           /\ n <= Room(session[s].ids)
           /\ session' = [session EXCEPT ![s] = new]
           /\ Grown(new, session[s], "gen", n)
           /\ Len(new.ids) = Len(session[s].ids) + n
           /\ Len(new.mask) = Len(session[s].mask) + n
           /\ new.server = session[s].server
           /\ new.state = AfterGenerating(new, called)
           /\ \E calls \in StartedCalls(new.state = "tools") :
                /\ call' = [call EXCEPT ![s] = calls]
                /\ instances' = instances \cup Queued(s, calls)
<1> DEFINE old == session[s]
           grown(n) == [old EXCEPT !.ids = @ \o Repeat("gen", n),
                                   !.mask = @ \o Repeat(1, n),
                                   !.logp = IF config.logprobs THEN @ \o Repeat("logp", n) ELSE @,
                                   !.turns = @ + 1]
           next(n, called) == AfterGenerating(grown(n), called)
           new(n, called) == [grown(n) EXCEPT !.state = next(n, called)]
<1>1. PICK n \in 1..MaxChunk, called \in BOOLEAN :
        /\ n <= Room(old.ids)
        /\ session' = [session EXCEPT ![s] = new(n, called)]
        /\ \E calls \in StartedCalls(next(n, called) = "tools") :
             /\ call' = [call EXCEPT ![s] = calls]
             /\ instances' = instances \cup Queued(s, calls)
  BY DEF HandleGenerating
<1>2. n \in Nat
  BY LengthsAssumption
<1>3. /\ Repeat("gen", n) \in Seq(Kinds) /\ Len(Repeat("gen", n)) = n
      /\ Repeat(1, n) \in Seq(Bits) /\ Len(Repeat(1, n)) = n
      /\ Repeat("logp", n) \in Seq(Kinds)
  <2>1. 1 \in Bits /\ {"gen", "logp"} \subseteq Kinds
    BY DEF Bits, Kinds
  <2> QED BY <1>2, <2>1, RepeatSeq
<1>4. old \in SessionRecord
  BY DEF Typed
<1>5. /\ grown(n) \in SessionRecord
      /\ Len(grown(n).ids) = Len(old.ids) + n /\ Len(grown(n).mask) = Len(old.mask) + n
      /\ grown(n).server = old.server /\ Grown(grown(n), old, "gen", n)
  <2> DEFINE ids  == old.ids \o Repeat("gen", n)
             mask == old.mask \o Repeat(1, n)
             logp == IF config.logprobs THEN old.logp \o Repeat("logp", n) ELSE old.logp
  <2>1. old.ids \in Seq(Kinds) /\ old.mask \in Seq(Bits) /\ old.logp \in Seq(Kinds)
    BY <1>4 DEF SessionRecord
  <2>2. ids \in Seq(Kinds) /\ Len(ids) = Len(old.ids) + n
    BY <1>3, <2>1, Appended
  <2>3. mask \in Seq(Bits) /\ Len(mask) = Len(old.mask) + n
    BY <1>3, <2>1, Appended
  <2>4. logp \in Seq(Kinds)
    BY <1>3, <2>1
  <2> DEFINE listed == Listed(old, ids, mask, logp)
  <2>5. grown(n) = [listed EXCEPT !.turns = old.turns + 1] /\ old.turns \in Nat
    BY <1>4 DEF Listed, SessionRecord
  <2> HIDE DEF ids, mask, logp, old, grown
  <2>6. /\ listed \in SessionRecord /\ listed.ids = ids /\ listed.mask = mask
        /\ listed.logp = logp /\ listed.server = old.server /\ listed.turns = old.turns
    BY <1>4, <2>2, <2>3, <2>4, ListsReplaced
  <2> HIDE DEF listed
  <2>7. /\ grown(n) \in SessionRecord /\ grown(n).ids = ids /\ grown(n).mask = mask
        /\ grown(n).logp = logp /\ grown(n).server = old.server
    <3> DEFINE k == old.turns + 1
    <3>1. k \in Nat
      BY <2>5
    <3>2. grown(n) = [listed EXCEPT !.turns = k]
      BY <2>5
    <3> HIDE DEF k
    <3>3. /\ [listed EXCEPT !.turns = k] \in SessionRecord
          /\ [listed EXCEPT !.turns = k].ids = listed.ids
          /\ [listed EXCEPT !.turns = k].mask = listed.mask
          /\ [listed EXCEPT !.turns = k].logp = listed.logp
          /\ [listed EXCEPT !.turns = k].server = listed.server
      BY <2>6, <3>1, Counted
    <3> QED BY <2>6, <3>2, <3>3
  <2>8. Grown(grown(n), old, "gen", n)
    BY <2>7 DEF Grown, MoreLogp, ids, mask, logp
  <2> QED BY <2>2, <2>3, <2>7, <2>8
<1>6. next(n, called) \in States
  BY DEF AfterGenerating, States
<1>7. /\ new(n, called) \in SessionRecord /\ new(n, called).state = next(n, called)
      /\ new(n, called).ids = grown(n).ids /\ new(n, called).mask = grown(n).mask
      /\ new(n, called).logp = grown(n).logp
      /\ new(n, called).server = grown(n).server
      /\ new(n, called).turns = grown(n).turns /\ new(n, called).users = grown(n).users
  <2> HIDE DEF grown, next
  <2> QED BY <1>5, <1>6 DEF SessionRecord
<1>8. AfterGenerating(new(n, called), called) = next(n, called)
  <2> HIDE DEF grown, new
  <2> QED BY <1>7 DEF AfterGenerating, Exhausted
<1> HIDE DEF old, grown, next, new
<1>9. /\ Len(new(n, called).ids) = Len(old.ids) + n
      /\ Len(new(n, called).mask) = Len(old.mask) + n
      /\ new(n, called).server = old.server
      /\ new(n, called).state = AfterGenerating(new(n, called), called)
      /\ Grown(new(n, called), old, "gen", n)
  BY <1>5, <1>7, <1>8 DEF Grown
<1>10. \E calls \in StartedCalls(new(n, called).state = "tools") :
         /\ call' = [call EXCEPT ![s] = calls]
         /\ instances' = instances \cup Queued(s, calls)
  BY <1>1, <1>7
<1>11. n <= Room(session[s].ids) /\ session' = [session EXCEPT ![s] = new(n, called)]
  BY <1>1 DEF old
<1>12. /\ Len(new(n, called).ids) = Len(session[s].ids) + n
       /\ Len(new(n, called).mask) = Len(session[s].mask) + n
       /\ new(n, called).server = session[s].server
       /\ Grown(new(n, called), session[s], "gen", n)
  BY <1>9 DEF old
<1>13. new(n, called) \in SessionRecord /\ n \in 1..MaxChunk /\ called \in BOOLEAN
  BY <1>1, <1>7
<1> QED BY <1>9, <1>10, <1>11, <1>12, <1>13

LEMMA ToolsRow ==
  ASSUME Typed, NEW s \in Sessions, HandleProcessingTools(s)
  PROVE  \E new \in SessionRecord, n \in Nat :
           /\ session' = [session EXCEPT ![s] = new]
           /\ call' = [call EXCEPT ![s] = <<>>]
           /\ new.server = session[s].server
           /\ SameLists(new, session[s]) \/ Grown(new, session[s], "tool", n)
           /\ Len(new.ids) = Len(session[s].ids) + n
           /\ Len(new.mask) = Len(session[s].mask) + n
           /\ new.state \in {"waiting", "error", "terminated"}
           /\ new.state # "terminated" => Len(new.mask) < ResponseLength
           /\ Room(new.ids) > 0 => new.state # "error"
<1> DEFINE old == session[s]
<1>1. PICK n \in 1..MaxChunk :
        session' = [session EXCEPT ![s] =
          IF NoRoomFor(old, n) THEN [old EXCEPT !.state = "terminated"]
                               ELSE Asking(Observe(old, "tool", n))]
  BY DEF HandleProcessingTools
<1>2. n \in Nat
  BY LengthsAssumption
<1>3. old \in SessionRecord
  BY DEF Typed
<1>4. call' = [call EXCEPT ![s] = <<>>]
  BY DEF HandleProcessingTools
<1>5. CASE NoRoomFor(old, n)
  <2> DEFINE new == [old EXCEPT !.state = "terminated"]
  <2>1. session' = [session EXCEPT ![s] = new]
    BY <1>1, <1>5
  <2>2. "terminated" \in States
    BY DEF States
  <2>3. /\ new \in SessionRecord /\ new.state = "terminated" /\ new.server = old.server
        /\ SameLists(new, old)
    <3> HIDE DEF old
    <3> QED BY <1>3, <2>2 DEF SessionRecord, SameLists
  <2>4. Len(old.ids) \in Nat /\ Len(old.mask) \in Nat
    BY <1>3 DEF SessionRecord
  <2> HIDE DEF new, old
  <2>5. 0 \in Nat /\ Len(new.ids) = Len(old.ids) + 0 /\ Len(new.mask) = Len(old.mask) + 0
    BY <2>3, <2>4 DEF SameLists
  <2>6. new.state # "error"
    BY <2>3
  <2> QED BY <1>4, <2>1, <2>3, <2>5, <2>6 DEF old
<1>6. CASE ~NoRoomFor(old, n)
  <2> DEFINE heard == Observe(old, "tool", n)
             new   == Asking(heard)
  <2>1. session' = [session EXCEPT ![s] = new]
    BY <1>1, <1>6
  <2> HIDE DEF old
  <2>2. /\ heard \in SessionRecord /\ heard.server = old.server
        /\ Len(heard.ids) = Len(old.ids) + n /\ Len(heard.mask) = Len(old.mask) + n
        /\ Grown(heard, old, "tool", n)
    BY <1>2, <1>3, ObserveGrows DEF Kinds
  <2> HIDE DEF heard
  <2>3. /\ new \in SessionRecord /\ SameLists(new, heard)
        /\ new.server = heard.server /\ new.state \in {"waiting", "error"}
        /\ Room(heard.ids) > 0 => new.state = "waiting"
    BY <2>2, AskingKeeps
  <2> HIDE DEF new
  <2>4. Len(old.mask) + n < ResponseLength
    <3>1. Len(old.mask) \in Nat /\ ResponseLength \in Nat
      BY <1>3, LengthsAssumption DEF SessionRecord
    <3> QED BY <1>2, <1>6, <3>1 DEF NoRoomFor
  <2>5. /\ Len(new.ids) = Len(old.ids) + n /\ Len(new.mask) = Len(old.mask) + n
        /\ new.server = old.server /\ new.state \in {"waiting", "error", "terminated"}
        /\ Len(new.mask) < ResponseLength
        /\ Room(new.ids) > 0 => new.state # "error"
        /\ Grown(new, old, "tool", n)
    BY <2>2, <2>3, <2>4 DEF SameLists, Grown
  <2> QED BY <1>2, <1>4, <2>1, <2>3, <2>5 DEF old
<1> QED BY <1>5, <1>6

LEMMA InteractingRow ==
  ASSUME Typed, NEW s \in Sessions, HandleInteracting(s)
  PROVE  \E new \in SessionRecord, n \in Nat :
           /\ session' = [session EXCEPT ![s] = new]
           /\ new.server = session[s].server
           /\ Grown(new, session[s], "user", n)
           /\ new.state \in {"waiting", "error", "terminated"}
<1> DEFINE old == session[s]
<1>1. PICK n \in 1..MaxChunk, ends \in BOOLEAN :
        session' = [session EXCEPT ![s] =
          IF ends THEN [Observe(old, "user", n) EXCEPT !.state = "terminated"]
                  ELSE Asking(Observe(old, "user", n))]
  BY DEF HandleInteracting
<1> DEFINE heard == Observe(old, "user", n)
<1>2. n \in Nat
  BY LengthsAssumption
<1>3. old \in SessionRecord
  BY DEF Typed
<1>4. heard \in SessionRecord /\ heard.server = old.server /\ Grown(heard, old, "user", n)
  <2> HIDE DEF old
  <2> QED BY <1>2, <1>3, ObserveGrows DEF Kinds
<1> HIDE DEF heard
<1>5. CASE ends
  <2> DEFINE new == [heard EXCEPT !.state = "terminated"]
  <2>1. /\ new \in SessionRecord /\ new.state = "terminated" /\ new.server = old.server
        /\ Grown(new, old, "user", n)
    <3> HIDE DEF old
    <3> QED BY <1>4 DEF SessionRecord, States, Grown
  <2>2. session' = [session EXCEPT ![s] = new]
    BY <1>1, <1>5 DEF heard
  <2> HIDE DEF new
  <2> QED BY <1>2, <2>1, <2>2
<1>6. CASE ~ends
  <2> DEFINE new == Asking(heard)
  <2>1. /\ new \in SessionRecord /\ new.state \in {"waiting", "error"}
        /\ new.server = old.server /\ Grown(new, old, "user", n)
    BY <1>4, AskingKeeps DEF SameLists, Grown
  <2>2. session' = [session EXCEPT ![s] = new]
    BY <1>1, <1>6 DEF heard
  <2> HIDE DEF new
  <2> QED BY <1>2, <2>1, <2>2
<1> QED BY <1>5, <1>6

LEMMA ScoredRow ==
  ASSUME Typed, NEW s \in Sessions, ComputeScore(s)
  PROVE  \E new \in SessionRecord :
           /\ session' = [session EXCEPT ![s] = new]
           /\ new.state = "scored" /\ new.server = session[s].server
           /\ SameLists(new, session[s])
<1> DEFINE old == session[s]
           new == [old EXCEPT !.state = "scored"]
<1>1. session' = [session EXCEPT ![s] = new]
  BY DEF ComputeScore
<1>2. old \in SessionRecord
  BY DEF Typed
<1>3. /\ new \in SessionRecord /\ new.state = "scored" /\ new.server = old.server
      /\ SameLists(new, old)
  <2> HIDE DEF old
  <2> QED BY <1>2 DEF SessionRecord, States, SameLists
<1> HIDE DEF new
<1> QED BY <1>1, <1>3

-----------------------------------------------------------------------------
(* What a step does to one call.                                              *)

LEMMA PhaseSet ==
  ASSUME Typed, NEW c \in Calls, NEW from \in Phases, NEW to \in Phases,
         SetPhase(c, from, to), UNCHANGED config
  PROVE  /\ call' \in [Sessions -> Seq(Phases)]
         /\ Calls' = Calls
         /\ call[c[1]][c[2]] = from
         /\ \A d \in Calls : call'[d[1]][d[2]] = IF d = c THEN to ELSE call[d[1]][d[2]]
<1> DEFINE s == c[1]
           k == c[2]
<1>1. s \in Sessions /\ k \in 1..config.parallel /\ c = <<s, k>>
  BY DEF Calls
<1>2. call[s] \in Seq(Phases) /\ k \in DOMAIN call[s]
  BY <1>1 DEF Calls, Typed
<1>3. call' = [call EXCEPT ![s] = [call[s] EXCEPT ![k] = to]] /\ call[s][k] = from
  BY DEF SetPhase
<1> HIDE DEF s, k
<1>4. [call[s] EXCEPT ![k] = to] \in Seq(Phases)
  BY <1>2, ExceptSeq
<1>5. DOMAIN [call[s] EXCEPT ![k] = to] = DOMAIN call[s]
  OBVIOUS
<1>6. call' \in [Sessions -> Seq(Phases)]
  BY <1>1, <1>3, <1>4 DEF Typed
<1>7. \A r \in Sessions : DOMAIN call'[r] = DOMAIN call[r]
  BY <1>1, <1>3, <1>5 DEF Typed
<1>8. Sessions' = Sessions /\ config'.parallel = config.parallel
  BY DEF Sessions, Workers
<1>9. Calls' = Calls
  BY <1>7, <1>8 DEF Calls
<1>10. ASSUME NEW d \in Calls
       PROVE  call'[d[1]][d[2]] = IF d = c THEN to ELSE call[d[1]][d[2]]
  <2>1. /\ d[1] \in Sessions /\ d = <<d[1], d[2]>> /\ d[2] \in DOMAIN call[d[1]]
    BY DEF Calls
  <2>2. CASE d[1] # s
    BY <1>1, <1>3, <2>1, <2>2 DEF Typed
  <2>3. CASE d[1] = s
    <3>1. call'[d[1]][d[2]] = [call[s] EXCEPT ![k] = to][d[2]]
      BY <1>1, <1>3, <2>3 DEF Typed
    <3>2. d = c <=> d[2] = k
      BY <1>1, <2>1, <2>3
    <3> QED BY <1>2, <2>1, <2>3, <3>1, <3>2
  <2> QED BY <2>2, <2>3
<1> QED BY <1>3, <1>6, <1>9, <1>10 DEF s, k

\* The calls in a set of phases, after one call changed its phase.
LEMMA CallsInAfter ==
  ASSUME Typed, NEW c \in Calls, NEW from \in Phases, NEW to \in Phases,
         SetPhase(c, from, to), UNCHANGED config, NEW phases
  PROVE  CallsIn(phases)' = (CallsIn(phases) \ {c}) \cup (IF to \in phases THEN {c} ELSE {})
BY PhaseSet DEF CallsIn

\* The calls in a set of phases when the calls of one row are replaced, none of them and
\* none of the old ones being in that set.
LEMMA CallsInKept ==
  ASSUME Typed, NEW s \in Sessions, NEW calls \in Seq(Phases),
         call' = [call EXCEPT ![s] = calls], UNCHANGED config, NEW phases,
         \A k \in DOMAIN calls : calls[k] \notin phases,
         \A k \in DOMAIN call[s] : call[s][k] \notin phases
  PROVE  CallsIn(phases)' = CallsIn(phases)
<1>1. Sessions' = Sessions /\ config'.parallel = config.parallel
  BY DEF Sessions, Workers
<1>2. \A r \in Sessions : call'[r] = IF r = s THEN calls ELSE call[r]
  BY DEF Typed
<1>3. CallsIn(phases) = {d \in Sessions \X (1..config.parallel) :
                           d[2] \in DOMAIN call[d[1]] /\ call[d[1]][d[2]] \in phases}
  BY DEF CallsIn, Calls
<1>4. CallsIn(phases)' = {d \in Sessions \X (1..config.parallel) :
                           d[2] \in DOMAIN call'[d[1]] /\ call'[d[1]][d[2]] \in phases}
  BY <1>1 DEF CallsIn, Calls
<1>5. ASSUME NEW d \in Sessions \X (1..config.parallel)
      PROVE  (d[2] \in DOMAIN call'[d[1]] /\ call'[d[1]][d[2]] \in phases)
               <=> (d[2] \in DOMAIN call[d[1]] /\ call[d[1]][d[2]] \in phases)
  BY <1>2
<1> QED BY <1>3, <1>4, <1>5

-----------------------------------------------------------------------------
(* Types.                                                                     *)

LEMMA StartedSeq ==
  ASSUME config \in Configs, NEW called \in BOOLEAN, NEW calls \in StartedCalls(called)
  PROVE  /\ calls \in Seq(Phases)
         /\ \A k \in DOMAIN calls : k \in 1..config.parallel /\ calls[k] \in {"answered", "queued"}
         /\ ~called => calls = <<>>
<1>1. CASE called
  <2>1. PICK n \in 1..config.parallel : calls \in [1..n -> {"answered", "queued"}]
    BY <1>1 DEF StartedCalls
  <2>2. n \in Nat /\ config.parallel \in Nat
    BY ConfigFacts
  <2>3. \A k \in DOMAIN calls : k \in 1..config.parallel /\ calls[k] \in {"answered", "queued"}
    BY <2>1, <2>2
  <2>4. calls \in [1..n -> Phases]
    BY <2>1 DEF Phases
  <2>5. calls \in Seq(Phases)
    BY <2>2, <2>4
  <2> QED BY <1>1, <2>3, <2>5
<1>2. CASE ~called
  BY <1>2 DEF StartedCalls
<1> QED BY <1>1, <1>2

LEMMA TypedInit == Init => Typed
<1> SUFFICES ASSUME Init PROVE Typed
  OBVIOUS
<1>1. config \in Configs /\ config.rate \in Nat
  BY ConfigFacts DEF Init
<1>2. ASSUME NEW s \in Sessions PROVE session[s] \in SessionRecord
  BY DEF Init, SessionRecord, States
<1>3. session \in [Sessions -> SessionRecord]
  BY <1>2 DEF Init
<1>4. call \in [Sessions -> Seq(Phases)]
  BY DEF Init
<1> QED BY <1>1, <1>3, <1>4 DEF Init, Typed

LEMMA TypedStep ==
  ASSUME Typed, [Next]_vars
  PROVE  Typed' /\ UNCHANGED config
<1>1. UNCHANGED config
  BY DEF Next, vars, WakeUp, Sleep, DispatchChunks, Collect, Raise, HandlePending,
         HandleGenerating, ComputeScore, HandleProcessingTools, HandleInteracting,
         StartThread, Acquire, Execute, AnswerCall, Release
<1>2. /\ Sessions' = Sessions /\ SessionRecord' = SessionRecord
  BY <1>1 DEF Sessions, Workers, SessionRecord
<1>3. ASSUME NEW s \in Sessions, NEW new \in SessionRecord,
             session' = [session EXCEPT ![s] = new]
      PROVE  session' \in [Sessions -> SessionRecord]
  BY <1>3 DEF Typed
<1>4. ASSUME NEW s \in Sessions, NEW calls \in Seq(Phases),
             call' = [call EXCEPT ![s] = calls]
      PROVE  call' \in [Sessions -> Seq(Phases)]
  BY <1>4 DEF Typed
<1>5. ASSUME NEW s \in Sessions, HandlePending(s) PROVE Typed'
  BY <1>1, <1>2, <1>3, <1>5, PendingRow DEF HandlePending, Typed
<1>6. ASSUME NEW s \in Sessions, HandleGenerating(s) PROVE Typed'
  <2>1. PICK new \in SessionRecord :
          /\ session' = [session EXCEPT ![s] = new]
          /\ \E calls \in StartedCalls(new.state = "tools") :
               call' = [call EXCEPT ![s] = calls]
    BY <1>6, GeneratingRow
  <2>2. PICK calls \in StartedCalls(new.state = "tools") : call' = [call EXCEPT ![s] = calls]
    BY <2>1
  <2>3. calls \in Seq(Phases)
    BY StartedSeq DEF Typed
  <2> QED BY <1>1, <1>2, <1>3, <1>4, <1>6, <2>1, <2>2, <2>3 DEF HandleGenerating, Typed
<1>7. ASSUME NEW s \in Sessions, ComputeScore(s) PROVE Typed'
  BY <1>1, <1>2, <1>3, <1>7, ScoredRow DEF ComputeScore, Typed
<1>8. ASSUME NEW s \in Sessions, HandleProcessingTools(s) PROVE Typed'
  <2>1. <<>> \in Seq(Phases)
    OBVIOUS
  <2>2. PICK new \in SessionRecord : /\ session' = [session EXCEPT ![s] = new]
                                     /\ call' = [call EXCEPT ![s] = <<>>]
    BY <1>8, ToolsRow
  <2>3. session' \in [Sessions -> SessionRecord]
    BY <1>3, <2>2
  <2>4. call' \in [Sessions -> Seq(Phases)]
    BY <1>4, <2>1, <2>2
  <2> QED BY <1>1, <1>2, <1>8, <2>3, <2>4 DEF HandleProcessingTools, Typed
<1>9. ASSUME NEW s \in Sessions, HandleInteracting(s) PROVE Typed'
  BY <1>1, <1>2, <1>3, <1>9, InteractingRow DEF HandleInteracting, Typed
<1>10. ASSUME NEW c \in Calls, NEW from \in Phases, NEW to \in Phases, SetPhase(c, from, to)
       PROVE  call' \in [Sessions -> Seq(Phases)]
  BY <1>1, <1>10, PhaseSet
<1>11. ASSUME NEW c \in Calls, CallStep(c) PROVE Typed'
  <2>1. call' \in [Sessions -> Seq(Phases)]
    BY <1>10, <1>11 DEF CallStep, StartThread, Acquire, Execute, AnswerCall, Phases
  <2>2. UNCHANGED session /\ tokens' \in Nat /\ releases' \in Nat
    BY <1>11 DEF CallStep, StartThread, Acquire, Execute, AnswerCall, Typed
  <2> QED BY <1>1, <1>2, <2>1, <2>2 DEF Typed
<1>12. CASE Release
  BY <1>1, <1>2, <1>12 DEF Release, Typed
<1>13. CASE ManagerStep \/ UNCHANGED vars
  <2>1. UNCHANGED <<session, call, tokens, releases>>
    BY <1>13 DEF ManagerStep, WakeUp, Sleep, DispatchChunks, Collect, Raise, vars
  <2> QED BY <1>1, <1>2, <2>1 DEF Typed
<1> QED BY <1>1, <1>5, <1>6, <1>7, <1>8, <1>9, <1>11, <1>12, <1>13
        DEF Next, ManagerStep, CallStep

-----------------------------------------------------------------------------
(* Engines.  All are awake from the dispatch of the rows on; the manager puts *)
(* them to sleep only once every row is scored, and a scored row stays so.    *)

EnginesInv ==
  /\ manager \in {"waking", "generating", "sleeping", "done", "failed"}
  /\ awake \subseteq config.servers
  /\ manager = "waking" => \A s \in Sessions : session[s].state = "pending"
  /\ manager \in {"generating", "failed"} => awake = config.servers
  /\ manager \in {"sleeping", "done"} => \A s \in Sessions : session[s].state = "scored"
  /\ \A s \in Sessions : session[s].state # "pending" => session[s].server \in config.servers

LEMMA EnginesInit == Init => EnginesInv
BY DEF Init, EnginesInv

\* A row that is not scored goes on while all engines are awake.
LEMMA EnginesRow ==
  ASSUME Typed, EnginesInv, NEW s \in Sessions, NEW new \in SessionRecord,
         session' = [session EXCEPT ![s] = new], UNCHANGED <<config, manager, awake>>,
         session[s].state \notin {"scored", "pending"} \/ manager = "generating",
         new.server \in config.servers
  PROVE  EnginesInv'
<1>1. Sessions' = Sessions
  BY DEF Sessions, Workers
<1>2. manager \in {"generating", "failed"}
  BY DEF EnginesInv
<1>3. \A r \in Sessions : session'[r] = IF r = s THEN new ELSE session[r]
  BY DEF Typed
<1> QED BY <1>1, <1>2, <1>3 DEF EnginesInv

LEMMA EnginesStep ==
  ASSUME Typed, EnginesInv, [Next]_vars
  PROVE  EnginesInv'
<1>1. UNCHANGED config /\ Sessions' = Sessions
  BY TypedStep DEF Sessions, Workers
<1>2. ASSUME NEW s \in Sessions, HandlePending(s) PROVE EnginesInv'
  <2>1. PICK v \in config.servers, new \in SessionRecord :
          session' = [session EXCEPT ![s] = new] /\ new.server = v
    BY <1>2, PendingRow
  <2>2. manager = "generating" /\ UNCHANGED <<config, manager, awake>>
    BY <1>2 DEF HandlePending
  <2> QED BY <2>1, <2>2, EnginesRow
<1>3. ASSUME NEW s \in Sessions, HandleGenerating(s) PROVE EnginesInv'
  <2>1. PICK new \in SessionRecord : /\ session' = [session EXCEPT ![s] = new]
                                     /\ new.server = session[s].server
    BY <1>3, GeneratingRow
  <2>2. session[s].state = "waiting" /\ UNCHANGED <<config, manager, awake>>
    BY <1>3 DEF HandleGenerating
  <2> QED BY <2>1, <2>2, EnginesRow DEF EnginesInv
<1>4. ASSUME NEW s \in Sessions, ComputeScore(s) PROVE EnginesInv'
  <2>1. PICK new \in SessionRecord : /\ session' = [session EXCEPT ![s] = new]
                                     /\ new.server = session[s].server
    BY <1>4, ScoredRow
  <2>2. session[s].state = "terminated" /\ UNCHANGED <<config, manager, awake>>
    BY <1>4 DEF ComputeScore
  <2> QED BY <2>1, <2>2, EnginesRow DEF EnginesInv
<1>5. ASSUME NEW s \in Sessions, HandleProcessingTools(s) PROVE EnginesInv'
  <2>1. PICK new \in SessionRecord : /\ session' = [session EXCEPT ![s] = new]
                                     /\ new.server = session[s].server
    BY <1>5, ToolsRow
  <2>2. session[s].state = "tools" /\ UNCHANGED <<config, manager, awake>>
    BY <1>5 DEF HandleProcessingTools
  <2> QED BY <2>1, <2>2, EnginesRow DEF EnginesInv
<1>6. ASSUME NEW s \in Sessions, HandleInteracting(s) PROVE EnginesInv'
  <2>1. PICK new \in SessionRecord : /\ session' = [session EXCEPT ![s] = new]
                                     /\ new.server = session[s].server
    BY <1>6, InteractingRow
  <2>2. session[s].state = "interacting" /\ UNCHANGED <<config, manager, awake>>
    BY <1>6 DEF HandleInteracting
  <2> QED BY <2>1, <2>2, EnginesRow DEF EnginesInv
<1>7. CASE (\E v \in config.servers : WakeUp(v)) \/ DispatchChunks
  BY <1>1, <1>7 DEF WakeUp, DispatchChunks, EnginesInv
<1>8. CASE Collect
  <2>1. \A s \in Sessions : session[s].state = "scored"
    BY <1>8 DEF Collect, AllAnswered, Finished, Sessions
  <2> QED BY <1>1, <1>8, <2>1 DEF Collect, EnginesInv
<1>9. CASE Raise
  BY <1>1, <1>9 DEF Raise, EnginesInv
<1>10. CASE \E v \in config.servers : Sleep(v)
  BY <1>1, <1>10 DEF Sleep, EnginesInv
<1>11. CASE (\E c \in Calls : CallStep(c)) \/ Release \/ UNCHANGED vars
  <2>1. UNCHANGED <<session, manager, awake>>
    BY <1>11 DEF CallStep, StartThread, Acquire, Execute, AnswerCall, Release, vars
  <2> QED BY <1>1, <2>1 DEF EnginesInv
<1> QED BY <1>2, <1>3, <1>4, <1>5, <1>6, <1>7, <1>8, <1>9, <1>10, <1>11 DEF Next, CallStep

\* No engine sleeps under a request of any row, whatever its worker and however late its
\* tools answer.
THEOREM EnginesAwakeHolds == Spec => []EnginesAwake
<1>1. Typed /\ EnginesInv /\ [Next]_vars => Typed' /\ EnginesInv'
  BY TypedStep, EnginesStep
<1>2. EnginesInv => EnginesAwake
  BY DEF EnginesInv, EnginesAwake
<1> QED BY <1>1, <1>2, TypedInit, EnginesInit, PTL DEF Spec

-----------------------------------------------------------------------------
(* Room.  Ids exceed the response by the prompt alone, and a row asks tools,  *)
(* and goes on after them, only with a response short of its limit.           *)

FitsInv ==
  ~config.interaction =>
    /\ manager # "failed"
    /\ \A s \in Sessions :
         /\ session[s].state \notin {"error", "interacting"}
         /\ session[s].state # "pending" =>
              Len(session[s].ids) <= Len(session[s].mask) + PromptLength

LEMMA FitsInit == Init => FitsInv
BY DEF Init, FitsInv

LEMMA FitsRow ==
  ASSUME Typed, FitsInv, ~config.interaction, NEW s \in Sessions, NEW new \in SessionRecord,
         session' = [session EXCEPT ![s] = new], UNCHANGED <<config, manager>>,
         new.state \notin {"error", "interacting"},
         Len(new.ids) <= Len(new.mask) + PromptLength
  PROVE  FitsInv'
<1>1. Sessions' = Sessions
  BY DEF Sessions, Workers
<1>2. \A r \in Sessions : session'[r] = IF r = s THEN new ELSE session[r]
  BY DEF Typed
<1> QED BY <1>1, <1>2 DEF FitsInv

LEMMA LengthsOfRow ==
  ASSUME NEW sess \in SessionRecord
  PROVE  /\ Len(sess.ids) \in Nat /\ Len(sess.mask) \in Nat
         /\ Room(sess.ids) = PromptLength + ResponseLength - Len(sess.ids)
         /\ PromptLength \in Nat /\ ResponseLength \in Nat \ {0}
BY LengthsAssumption DEF SessionRecord, Room, MaxModelLen

LEMMA FitsStep ==
  ASSUME Typed, FitsInv, [Next]_vars
  PROVE  FitsInv'
<1>1. UNCHANGED config /\ Sessions' = Sessions
  BY TypedStep DEF Sessions, Workers
<1> SUFFICES ASSUME ~config.interaction PROVE FitsInv'
  BY <1>1 DEF FitsInv
<1>2. ASSUME NEW s \in Sessions, HandlePending(s) PROVE FitsInv'
  <2>1. PICK n \in 1..PromptLength, new \in SessionRecord :
           /\ session' = [session EXCEPT ![s] = new]
           /\ new.state \in {"waiting", "error"} /\ Len(new.ids) = n
           /\ Room(new.ids) > 0 => new.state = "waiting"
    BY <1>2, PendingRow
  <2>2. Room(new.ids) > 0 /\ Len(new.ids) <= Len(new.mask) + PromptLength
    BY <2>1, LengthsOfRow
  <2> QED BY <1>2, <2>1, <2>2, FitsRow DEF HandlePending
<1>3. ASSUME NEW s \in Sessions, HandleGenerating(s) PROVE FitsInv'
  <2>1. PICK n \in 1..MaxChunk, called \in BOOLEAN, new \in SessionRecord :
           /\ session' = [session EXCEPT ![s] = new]
           /\ Len(new.ids) = Len(session[s].ids) + n
           /\ Len(new.mask) = Len(session[s].mask) + n
           /\ new.state = AfterGenerating(new, called)
    BY <1>3, GeneratingRow
  <2>2. new.state \notin {"error", "interacting"}
    BY <2>1 DEF AfterGenerating
  <2>3. session[s] \in SessionRecord /\ n \in Nat
    BY LengthsAssumption DEF Typed
  <2>4. Len(session[s].ids) <= Len(session[s].mask) + PromptLength
    BY <1>3 DEF HandleGenerating, FitsInv
  <2>5. Len(new.ids) <= Len(new.mask) + PromptLength
    BY <2>1, <2>3, <2>4, LengthsOfRow
  <2> QED BY <1>3, <2>1, <2>2, <2>5, FitsRow DEF HandleGenerating
<1>4. ASSUME NEW s \in Sessions, ComputeScore(s) PROVE FitsInv'
  <2>1. PICK new \in SessionRecord :
           /\ session' = [session EXCEPT ![s] = new] /\ new.state = "scored"
           /\ new.ids = session[s].ids /\ new.mask = session[s].mask
    BY <1>4, ScoredRow DEF SameLists
  <2>2. Len(new.ids) <= Len(new.mask) + PromptLength
    BY <1>4, <2>1 DEF ComputeScore, FitsInv
  <2> QED BY <1>4, <2>1, <2>2, FitsRow DEF ComputeScore
<1>5. ASSUME NEW s \in Sessions, HandleProcessingTools(s) PROVE FitsInv'
  <2>1. PICK new \in SessionRecord, n \in Nat :
           /\ session' = [session EXCEPT ![s] = new]
           /\ Len(new.ids) = Len(session[s].ids) + n
           /\ Len(new.mask) = Len(session[s].mask) + n
           /\ new.state \in {"waiting", "error", "terminated"}
           /\ new.state # "terminated" => Len(new.mask) < ResponseLength
           /\ Room(new.ids) > 0 => new.state # "error"
    BY <1>5, ToolsRow
  <2>2. session[s] \in SessionRecord
    BY DEF Typed
  <2>3. Len(session[s].ids) <= Len(session[s].mask) + PromptLength
    BY <1>5 DEF HandleProcessingTools, FitsInv
  <2>4. Len(new.ids) <= Len(new.mask) + PromptLength
    BY <2>1, <2>2, <2>3, LengthsOfRow
  <2>5. new.state # "terminated" => Room(new.ids) > 0
    BY <2>1, <2>4, LengthsOfRow
  <2>6. new.state \notin {"error", "interacting"}
    BY <2>1, <2>5
  <2> QED BY <1>5, <2>1, <2>4, <2>6, FitsRow DEF HandleProcessingTools
<1>6. ASSUME NEW s \in Sessions, HandleInteracting(s) PROVE FitsInv'
  BY <1>6 DEF HandleInteracting, FitsInv
<1>7. CASE Raise
  <2>1. \E s \in Sessions : session[s].state = "error"
    BY <1>7 DEF Raise, Raised, Sessions
  <2> QED BY <2>1 DEF FitsInv
<1>8. CASE (\E v \in config.servers : WakeUp(v) \/ Sleep(v)) \/ DispatchChunks \/ Collect
  <2>1. UNCHANGED session /\ manager' \in {manager, "waking", "generating", "sleeping", "done"}
    BY <1>8 DEF WakeUp, Sleep, DispatchChunks, Collect
  <2> QED BY <1>1, <2>1 DEF FitsInv
<1>9. CASE (\E c \in Calls : CallStep(c)) \/ Release \/ UNCHANGED vars
  <2>1. UNCHANGED <<session, manager>>
    BY <1>9 DEF CallStep, StartThread, Acquire, Execute, AnswerCall, Release, vars
  <2> QED BY <1>1, <2>1 DEF FitsInv
<1> QED BY <1>2, <1>3, <1>4, <1>5, <1>6, <1>7, <1>8, <1>9 DEF Next, CallStep

\* Without an interaction no request lacks room and no batch fails, for every prompt and
\* response length and every size of tool responses.
THEOREM RequestsFitHolds == Spec => []RequestsFit
<1>1. Typed /\ FitsInv /\ [Next]_vars => Typed' /\ FitsInv'
  BY TypedStep, FitsStep
<1>2. FitsInv => RequestsFit
  BY DEF FitsInv, RequestsFit
<1> QED BY <1>1, <1>2, TypedInit, FitsInit, PTL DEF Spec

-----------------------------------------------------------------------------
(* Resources.  Only a row that waits for its tools has calls, so a generation *)
(* or the next turn never drops a call that holds a token or an instance.     *)

Executing == CallsIn({"executing"})
Open      == CallsIn({"queued", "acquiring", "executing", "returned"})

ResourcesInv ==
  /\ \A s \in Sessions : session[s].state # "tools" => call[s] = <<>>
  /\ IsFiniteSet(Executing)
  /\ tokens + Cardinality(Executing) + releases = config.rate
  /\ instances = Open

LEMMA ResourcesInit == Init => ResourcesInv
<1> SUFFICES ASSUME Init PROVE ResourcesInv
  OBVIOUS
<1>1. Calls = {}
  BY DEF Init, Calls
<1>2. Executing = {} /\ Open = {}
  BY <1>1 DEF Executing, Open, CallsIn
<1>3. IsFiniteSet({}) /\ Cardinality({}) = 0
  BY FS_EmptySet
<1>4. config.rate \in Nat
  BY ConfigFacts DEF Init
<1> QED BY <1>2, <1>3, <1>4 DEF Init, ResourcesInv

\* A step that leaves calls, tokens and instances alone.
LEMMA ResourcesKept ==
  ASSUME Typed, ResourcesInv, UNCHANGED <<config, call, tokens, releases, instances>>,
         \A s \in Sessions : session'[s].state # "tools" => session[s].state # "tools" \/ call[s] = <<>>
  PROVE  ResourcesInv'
<1>1. Sessions' = Sessions /\ Calls' = Calls
  BY DEF Sessions, Workers, Calls
<1>2. Executing' = Executing /\ Open' = Open
  BY <1>1 DEF Executing, Open, CallsIn
<1> QED BY <1>1, <1>2 DEF ResourcesInv

LEMMA ResourcesStep ==
  ASSUME Typed, ResourcesInv, [Next]_vars
  PROVE  ResourcesInv'
<1>1. UNCHANGED config /\ Sessions' = Sessions
  BY TypedStep DEF Sessions, Workers
<1>2. tokens \in Nat /\ releases \in Nat /\ Cardinality(Executing) \in Nat /\ config.rate \in Nat
  BY FS_CardinalityType, ConfigFacts DEF ResourcesInv, Typed
<1>3. ASSUME NEW s \in Sessions, HandlePending(s) PROVE ResourcesInv'
  <2>1. PICK new \in SessionRecord : session' = [session EXCEPT ![s] = new]
    BY <1>3, PendingRow
  <2> QED BY <1>1, <1>3, <2>1, ResourcesKept DEF HandlePending, Typed
<1>4. ASSUME NEW s \in Sessions, ComputeScore(s) PROVE ResourcesInv'
  <2>1. PICK new \in SessionRecord : session' = [session EXCEPT ![s] = new]
    BY <1>4, ScoredRow
  <2> QED BY <1>1, <1>4, <2>1, ResourcesKept DEF ComputeScore, Typed
<1>5. ASSUME NEW s \in Sessions, HandleInteracting(s) PROVE ResourcesInv'
  <2>1. PICK new \in SessionRecord : session' = [session EXCEPT ![s] = new]
    BY <1>5, InteractingRow
  <2> QED BY <1>1, <1>5, <2>1, ResourcesKept DEF HandleInteracting, Typed
<1>6. ASSUME NEW s \in Sessions, HandleProcessingTools(s) PROVE ResourcesInv'
  <2>1. PICK new \in SessionRecord : /\ session' = [session EXCEPT ![s] = new]
                                     /\ call' = [call EXCEPT ![s] = <<>>]
    BY <1>6, ToolsRow
  <2>2. /\ \A k \in DOMAIN call[s] : call[s][k] = "answered"
        /\ UNCHANGED <<instances, tokens, releases>>
    BY <1>6 DEF HandleProcessingTools
  <2>3. <<>> \in Seq(Phases) /\ DOMAIN <<>> = {}
    OBVIOUS
  <2>4. Executing' = Executing /\ Open' = Open
    BY <1>1, <2>1, <2>2, <2>3, CallsInKept DEF Executing, Open
  <2>5. \A r \in Sessions : session'[r].state # "tools" => call'[r] = <<>>
    BY <2>1 DEF ResourcesInv, Typed
  <2> QED BY <1>1, <2>2, <2>4, <2>5 DEF ResourcesInv
<1>7. ASSUME NEW s \in Sessions, HandleGenerating(s) PROVE ResourcesInv'
  <2>1. PICK new \in SessionRecord :
          /\ session' = [session EXCEPT ![s] = new]
          /\ \E calls \in StartedCalls(new.state = "tools") :
               /\ call' = [call EXCEPT ![s] = calls]
               /\ instances' = instances \cup Queued(s, calls)
    BY <1>7, GeneratingRow
  <2>2. PICK calls \in StartedCalls(new.state = "tools") :
          /\ call' = [call EXCEPT ![s] = calls]
          /\ instances' = instances \cup Queued(s, calls)
    BY <2>1
  <2>3. /\ calls \in Seq(Phases)
        /\ \A k \in DOMAIN calls : k \in 1..config.parallel /\ calls[k] \in {"answered", "queued"}
        /\ new.state # "tools" => calls = <<>>
    BY StartedSeq DEF Typed
  <2>4. call[s] = <<>> /\ DOMAIN call[s] = {}
    BY <1>7 DEF HandleGenerating, ResourcesInv
  <2>5. \A k \in DOMAIN calls : calls[k] \notin {"executing"}
    BY <2>3
  <2>6. Executing' = Executing
    BY <1>1, <2>2, <2>3, <2>4, <2>5, CallsInKept DEF Executing
  <2>7. Open' = Open \cup Queued(s, calls)
    <3>1. \A r \in Sessions : call'[r] = IF r = s THEN calls ELSE call[r]
      BY <2>2 DEF Typed
    <3> DEFINE OpenPhases == {"queued", "acquiring", "executing", "returned"}
    <3>2. Open = {d \in Sessions \X (1..config.parallel) :
                    d[2] \in DOMAIN call[d[1]] /\ call[d[1]][d[2]] \in OpenPhases}
      BY DEF Open, CallsIn, Calls
    <3>3. Open' = {d \in Sessions \X (1..config.parallel) :
                    d[2] \in DOMAIN call'[d[1]] /\ call'[d[1]][d[2]] \in OpenPhases}
      BY <1>1 DEF Open, CallsIn, Calls
    <3>4. Queued(s, calls) = {d \in Sessions \X (1..config.parallel) :
                                d[1] = s /\ d[2] \in DOMAIN calls /\ calls[d[2]] = "queued"}
      BY <2>3 DEF Queued
    <3>5. ASSUME NEW d \in Sessions \X (1..config.parallel)
          PROVE  (d[2] \in DOMAIN call'[d[1]] /\ call'[d[1]][d[2]] \in OpenPhases)
                   <=> \/ d[2] \in DOMAIN call[d[1]] /\ call[d[1]][d[2]] \in OpenPhases
                       \/ d[1] = s /\ d[2] \in DOMAIN calls /\ calls[d[2]] = "queued"
      <4>1. CASE d[1] = s
        BY <2>3, <2>4, <3>1, <4>1
      <4>2. CASE d[1] # s
        BY <3>1, <4>2
      <4> QED BY <4>1, <4>2
    <3> HIDE DEF OpenPhases
    <3> QED BY <3>2, <3>3, <3>4, <3>5
  <2>8. \A r \in Sessions : session'[r].state # "tools" => call'[r] = <<>>
    BY <2>1, <2>2, <2>3 DEF ResourcesInv, Typed
  <2>9. UNCHANGED <<tokens, releases>>
    BY <1>7 DEF HandleGenerating
  <2> QED BY <1>1, <2>2, <2>6, <2>7, <2>8, <2>9 DEF ResourcesInv
<1>8. ASSUME NEW c \in Calls, NEW from \in Phases, NEW to \in Phases, SetPhase(c, from, to),
             UNCHANGED session
      PROVE  /\ \A s \in Sessions : session'[s].state # "tools" => call'[s] = <<>>
             /\ Executing' = (Executing \ {c}) \cup (IF to = "executing" THEN {c} ELSE {})
             /\ Open' = (Open \ {c}) \cup (IF to = "answered" THEN {} ELSE {c})
             /\ c \in Executing <=> from = "executing"
             /\ c \in Open <=> from # "answered"
  <2>1. c[1] \in Sessions /\ c[2] \in DOMAIN call[c[1]] /\ call[c[1]][c[2]] = from
    BY <1>8 DEF Calls, SetPhase
  <2>2. session[c[1]].state = "tools"
    BY <2>1 DEF ResourcesInv
  <2>3. \A s \in Sessions : s # c[1] => call'[s] = call[s]
    BY <1>8 DEF SetPhase, Typed
  <2>4. \A s \in Sessions : session'[s].state # "tools" => call'[s] = <<>>
    BY <1>8, <2>2, <2>3 DEF ResourcesInv
  <2>5. Executing' = (Executing \ {c}) \cup (IF to = "executing" THEN {c} ELSE {})
    BY <1>1, <1>8, CallsInAfter DEF Executing
  <2>6. Open' = (Open \ {c}) \cup
                  (IF to \in {"queued", "acquiring", "executing", "returned"} THEN {c} ELSE {})
    BY <1>1, <1>8, CallsInAfter DEF Open
  <2> QED BY <1>8, <2>1, <2>4, <2>5, <2>6 DEF Executing, Open, CallsIn, Phases
<1>9. ASSUME NEW c \in Calls, StartThread(c) PROVE ResourcesInv'
  <2>1. /\ SetPhase(c, "queued", "acquiring")
        /\ UNCHANGED <<session, tokens, releases, instances>>
    BY <1>9 DEF StartThread
  <2>2. Executing' = Executing /\ Open' = Open
    BY <1>8, <2>1 DEF Phases
  <2> QED BY <1>1, <1>8, <2>1, <2>2 DEF ResourcesInv, Phases
<1>10. ASSUME NEW c \in Calls, Acquire(c) PROVE ResourcesInv'
  <2>1. /\ SetPhase(c, "acquiring", "executing") /\ tokens > 0 /\ tokens' = tokens - 1
        /\ UNCHANGED <<session, releases, instances>>
    BY <1>10 DEF Acquire
  <2>2. c \notin Executing /\ Executing' = Executing \cup {c} /\ Open' = Open
    BY <1>8, <2>1 DEF Phases
  <2>3. IsFiniteSet(Executing') /\ Cardinality(Executing') = Cardinality(Executing) + 1
    BY <2>2, FS_AddElement DEF ResourcesInv
  <2>4. tokens' + Cardinality(Executing') + releases' = config.rate
    BY <1>2, <2>1, <2>3 DEF ResourcesInv
  <2> QED BY <1>1, <1>8, <2>1, <2>2, <2>3, <2>4 DEF ResourcesInv, Phases
<1>11. ASSUME NEW c \in Calls, Execute(c) PROVE ResourcesInv'
  <2>1. /\ SetPhase(c, "executing", "returned") /\ releases' = releases + 1
        /\ UNCHANGED <<session, tokens, instances>>
    BY <1>11 DEF Execute
  <2>2. c \in Executing /\ Executing' = Executing \ {c} /\ Open' = Open
    BY <1>8, <2>1 DEF Phases
  <2>3. IsFiniteSet(Executing') /\ Cardinality(Executing') = Cardinality(Executing) - 1
    BY <2>2, FS_RemoveElement DEF ResourcesInv
  <2>4. tokens' + Cardinality(Executing') + releases' = config.rate
    BY <1>2, <2>1, <2>3 DEF ResourcesInv
  <2> QED BY <1>1, <1>8, <2>1, <2>2, <2>3, <2>4 DEF ResourcesInv, Phases
<1>12. ASSUME NEW c \in Calls, AnswerCall(c) PROVE ResourcesInv'
  <2>1. /\ SetPhase(c, "returned", "answered") /\ instances' = instances \ {c}
        /\ UNCHANGED <<session, tokens, releases>>
    BY <1>12 DEF AnswerCall
  <2>2. Executing' = Executing /\ Open' = Open \ {c}
    BY <1>8, <2>1 DEF Phases
  <2> QED BY <1>1, <1>8, <2>1, <2>2 DEF ResourcesInv, Phases
<1>13. CASE Release
  <2>1. Executing' = Executing /\ Open' = Open
    BY <1>1, <1>13 DEF Release, Executing, Open, CallsIn, Calls
  <2>2. tokens' + Cardinality(Executing') + releases' = config.rate
    BY <1>2, <1>13, <2>1 DEF Release, ResourcesInv
  <2> QED BY <1>1, <1>13, <2>1, <2>2 DEF Release, ResourcesInv
<1>14. CASE ManagerStep \/ UNCHANGED vars
  <2>1. UNCHANGED <<session, call, tokens, releases, instances>>
    BY <1>14 DEF ManagerStep, WakeUp, Sleep, DispatchChunks, Collect, Raise, vars
  <2> QED BY <1>1, <2>1, ResourcesKept
<1> QED BY <1>3, <1>4, <1>5, <1>6, <1>7, <1>9, <1>10, <1>11, <1>12, <1>13, <1>14
        DEF Next, ManagerStep

\* Every token of the limiter is free, held by one search or on its way back, and exactly
\* the calls without an answer keep an instance, for every number of rows and calls.
THEOREM ResourcesReturnedHolds == Spec => []ResourcesReturned
<1>1. Typed /\ ResourcesInv /\ [Next]_vars => Typed' /\ ResourcesInv'
  BY TypedStep, ResourcesStep
<1>2. ResourcesInv => ResourcesReturned
  BY DEF ResourcesInv, ResourcesReturned, Executing, Open
<1> QED BY <1>1, <1>2, TypedInit, ResourcesInit, PTL DEF Spec
-----------------------------------------------------------------------------
(* Alignment.  Behind its prompt a row has one mask bit, and with log-probs   *)
(* one log-prob, for every token, and the dialogue starts with the model.     *)

Words == {"gen", "tool", "user"}

Aligned(ids, mask, logp, p) ==
  /\ p \in 1..PromptLength /\ Len(ids) = p + Len(mask)
  /\ \A i \in 1..p : ids[i] = "prompt"
  /\ \A i \in 1..Len(mask) : /\ ids[p + i] \in Words
                             /\ mask[i] = 1 <=> ids[p + i] = "gen"
                             /\ config.logprobs => (mask[i] = 1 <=> logp[i] = "logp")
  /\ Len(mask) > 0 => mask[1] = 1
  /\ IF config.logprobs THEN Len(logp) = Len(mask) ELSE logp = <<>>

AlignedRow(sess) ==
  IF sess.state = "pending"
  THEN sess.mask = <<>> /\ sess.logp = <<>>
  ELSE /\ \E p \in 1..PromptLength : Aligned(sess.ids, sess.mask, sess.logp, p)
       /\ sess.state \in {"tools", "interacting", "terminated", "scored"} => Len(sess.mask) > 0

AlignedInv == \A s \in Sessions : AlignedRow(session[s])

\* The elements of a sequence with a repetition behind it.
Extended(b, a, x, n) == b = a \o Repeat(x, n)

Longer(b, a, x, n) ==
  /\ Len(b) = Len(a) + n
  /\ \A i \in 1..(Len(a) + n) : b[i] = IF i <= Len(a) THEN a[i] ELSE x

LEMMA RepeatedElements ==
  ASSUME NEW S, NEW a \in Seq(S), NEW x \in S, NEW n \in Nat, NEW b, Extended(b, a, x, n)
  PROVE  Longer(b, a, x, n)
<1> DEFINE t == Repeat(x, n)
           c == a \o t
<1>1. t \in Seq(S) /\ Len(t) = n /\ \A i \in 1..n : t[i] = x
  BY RepeatSeq DEF Repeat
<1>2. b = c
  BY DEF Extended
<1> HIDE DEF t
<1>3. /\ Len(c) = Len(a) + Len(t)
      /\ \A i \in 1..(Len(a) + Len(t)) : c[i] = IF i <= Len(a) THEN a[i] ELSE t[i - Len(a)]
  BY <1>1, ConcatProperties
<1>4. Len(a) \in Nat
  OBVIOUS
<1> HIDE DEF c
<1> QED BY <1>1, <1>2, <1>3, <1>4 DEF Longer

LEMMA GrownAligned ==
  ASSUME config \in Configs, NEW new \in SessionRecord, NEW old \in SessionRecord,
         NEW kind \in Words, NEW n \in Nat, NEW p \in 1..PromptLength,
         Grown(new, old, kind, n), Aligned(old.ids, old.mask, old.logp, p),
         kind = "gen" => n > 0, kind # "gen" => Len(old.mask) > 0
  PROVE  Aligned(new.ids, new.mask, new.logp, p) /\ Len(new.mask) > 0
<1> DEFINE bit == IF kind = "gen" THEN 1 ELSE 0
           l   == Len(old.mask)
           lp  == IF kind = "gen" THEN "logp" ELSE "pad"
<1>1. old.ids \in Seq(Kinds) /\ old.mask \in Seq(Bits) /\ old.logp \in Seq(Kinds)
  BY DEF SessionRecord
<1>2. kind \in Kinds /\ bit \in Bits /\ lp \in Kinds
  BY DEF Words, Kinds, Bits
<1>3. l \in Nat /\ p \in Nat \ {0} /\ Len(old.ids) = p + l
  BY <1>1, LengthsAssumption DEF Aligned
<1>4. /\ Len(new.ids) = p + l + n
      /\ \A i \in 1..(p + l + n) : new.ids[i] = IF i <= p + l THEN old.ids[i] ELSE kind
  <2>1. Extended(new.ids, old.ids, kind, n)
    BY DEF Grown, Extended
  <2>2. Longer(new.ids, old.ids, kind, n)
    BY <1>1, <1>2, <2>1, RepeatedElements
  <2> HIDE DEF l
  <2> QED BY <1>3, <2>2 DEF Longer
<1>5. /\ Len(new.mask) = l + n
      /\ \A i \in 1..(l + n) : new.mask[i] = IF i <= l THEN old.mask[i] ELSE bit
  <2>1. Extended(new.mask, old.mask, bit, n)
    BY DEF Grown, Extended
  <2> HIDE DEF bit
  <2>2. Longer(new.mask, old.mask, bit, n)
    BY <1>1, <1>2, <2>1, RepeatedElements
  <2> QED BY <2>2 DEF Longer
<1>6. IF config.logprobs
      THEN /\ Len(new.logp) = l + n
           /\ \A i \in 1..(l + n) : new.logp[i] = IF i <= l THEN old.logp[i] ELSE lp
      ELSE new.logp = <<>>
  <2>1. CASE config.logprobs
    <3>1. Len(old.logp) = l
      BY <2>1 DEF Aligned
    <3>2. kind # "gen" => old.logp # <<>>
      BY <3>1
    <3>3. Extended(new.logp, old.logp, lp, n)
      BY <2>1, <3>2 DEF Grown, MoreLogp, Extended
    <3> HIDE DEF lp
    <3>4. Longer(new.logp, old.logp, lp, n)
      BY <1>1, <1>2, <3>3, RepeatedElements
    <3> QED BY <2>1, <3>1, <3>4 DEF Longer
  <2>2. CASE ~config.logprobs
    BY <2>2 DEF Grown, MoreLogp, Aligned
  <2> QED BY <2>1, <2>2
<1>7. bit = 1 <=> kind = "gen"
  OBVIOUS
<1>8. bit = 1 <=> lp = "logp"
  OBVIOUS
<1>9. l > 0 \/ (n > 0 /\ bit = 1)
  OBVIOUS
<1>10. /\ \A i \in 1..p : old.ids[i] = "prompt"
       /\ \A i \in 1..l : /\ old.ids[p + i] \in Words
                          /\ old.mask[i] = 1 <=> old.ids[p + i] = "gen"
                          /\ config.logprobs => (old.mask[i] = 1 <=> old.logp[i] = "logp")
       /\ l > 0 => old.mask[1] = 1
  BY DEF Aligned
<1> HIDE DEF bit, lp, l
<1>15. \A i \in 1..p : new.ids[i] = "prompt"
  <2>1. \A i \in 1..p : i \in 1..(p + l + n) /\ i <= p + l
    BY <1>3
  <2> QED BY <1>4, <1>10, <2>1
<1>11. ASSUME NEW i \in 1..Len(new.mask)
       PROVE  /\ new.ids[p + i] \in Words
              /\ new.mask[i] = 1 <=> new.ids[p + i] = "gen"
              /\ config.logprobs => (new.mask[i] = 1 <=> new.logp[i] = "logp")
  <2>1. i \in 1..(l + n) /\ p + i \in 1..(p + l + n)
    BY <1>3, <1>5
  <2>2. CASE i <= l
    <3>1. /\ old.ids[p + i] \in Words
          /\ old.mask[i] = 1 <=> old.ids[p + i] = "gen"
          /\ config.logprobs => (old.mask[i] = 1 <=> old.logp[i] = "logp")
      BY <1>3, <1>10, <2>1, <2>2
    <3>2. new.ids[p + i] = old.ids[p + i] /\ new.mask[i] = old.mask[i]
      <4>1. p + i <= p + l
        BY <1>3, <2>1, <2>2
      <4> QED BY <1>4, <1>5, <2>1, <2>2, <4>1
    <3>3. config.logprobs => new.logp[i] = old.logp[i]
      BY <1>6, <2>1, <2>2
    <3> QED BY <3>1, <3>2, <3>3
  <2>3. CASE ~(i <= l)
    <3>1. new.ids[p + i] = kind /\ new.mask[i] = bit
      <4>1. ~(p + i <= p + l)
        BY <1>3, <2>1, <2>3
      <4> QED BY <1>4, <1>5, <2>1, <2>3, <4>1
    <3>2. config.logprobs => new.logp[i] = lp
      BY <1>6, <2>1, <2>3
    <3> QED BY <1>7, <1>8, <3>1, <3>2
  <2> QED BY <2>2, <2>3
<1>12. Len(new.mask) > 0 /\ new.mask[1] = 1
  <2>1. 1 \in 1..(l + n)
    BY <1>3, <1>9
  <2> QED BY <1>3, <1>5, <1>9, <1>10, <2>1
<1>13. IF config.logprobs THEN Len(new.logp) = Len(new.mask) ELSE new.logp = <<>>
  BY <1>5, <1>6
<1>14. Len(new.ids) = p + Len(new.mask)
  BY <1>3, <1>4, <1>5
<1> QED BY <1>11, <1>12, <1>13, <1>14, <1>15 DEF Aligned

LEMMA AlignedInit == Init => AlignedInv
BY DEF Init, AlignedInv, AlignedRow

LEMMA AlignedKept ==
  ASSUME Typed, AlignedInv, UNCHANGED config, NEW s \in Sessions,
         NEW new \in SessionRecord, session' = [session EXCEPT ![s] = new], AlignedRow(new)
  PROVE  AlignedInv'
<1>1. Sessions' = Sessions
  BY DEF Sessions, Workers
<1>2. \A r \in Sessions : session'[r] = IF r = s THEN new ELSE session[r]
  BY DEF Typed
<1>3. \A r \in Sessions : AlignedRow(session'[r])
  BY <1>2 DEF AlignedInv
<1>4. \A r \in Sessions : AlignedRow(session[r])'
  BY <1>3 DEF AlignedRow, Aligned
<1> QED BY <1>1, <1>4 DEF AlignedInv

LEMMA AlignedStep ==
  ASSUME Typed, AlignedInv, [Next]_vars
  PROVE  AlignedInv'
<1>1. UNCHANGED config /\ Sessions' = Sessions
  BY TypedStep DEF Sessions, Workers
<1>2. config \in Configs /\ \A s \in Sessions : session[s] \in SessionRecord /\ AlignedRow(session[s])
  BY DEF Typed, AlignedInv
<1>3. ASSUME NEW s \in Sessions, HandlePending(s) PROVE AlignedInv'
  <2>1. PICK n \in 1..PromptLength, new \in SessionRecord :
          /\ session' = [session EXCEPT ![s] = new]
          /\ new.state \in {"waiting", "error"}
          /\ new.ids = Repeat("prompt", n)
          /\ new.mask = session[s].mask /\ new.logp = session[s].logp
    BY <1>3, PendingRow
  <2>2. n \in Nat /\ "prompt" \in Kinds
    BY LengthsAssumption DEF Kinds
  <2>3. Len(new.ids) = n /\ \A i \in 1..n : new.ids[i] = "prompt"
    BY <2>1, <2>2, RepeatSeq DEF Repeat
  <2>4. new.mask = <<>> /\ new.logp = <<>>
    BY <1>2, <1>3, <2>1 DEF HandlePending, AlignedRow
  <2>5. Aligned(new.ids, new.mask, new.logp, n)
    BY <2>2, <2>3, <2>4 DEF Aligned
  <2>6. AlignedRow(new)
    BY <2>1, <2>5 DEF AlignedRow
  <2> QED BY <1>1, <2>1, <2>6, AlignedKept
<1>4. ASSUME NEW s \in Sessions, HandleGenerating(s) PROVE AlignedInv'
  <2>1. PICK n \in 1..MaxChunk, called \in BOOLEAN, new \in SessionRecord :
          /\ session' = [session EXCEPT ![s] = new]
          /\ Grown(new, session[s], "gen", n)
          /\ new.state = AfterGenerating(new, called)
    BY <1>4, GeneratingRow
  <2>2. n \in Nat /\ n > 0 /\ "gen" \in Words
    BY LengthsAssumption DEF Words
  <2>3. PICK p \in 1..PromptLength :
          Aligned(session[s].ids, session[s].mask, session[s].logp, p)
    BY <1>2, <1>4 DEF HandleGenerating, AlignedRow
  <2>4. Aligned(new.ids, new.mask, new.logp, p) /\ Len(new.mask) > 0
    BY <1>2, <2>1, <2>2, <2>3, GrownAligned
  <2>5. new.state # "pending"
    BY <2>1 DEF AfterGenerating
  <2>6. AlignedRow(new)
    BY <2>4, <2>5 DEF AlignedRow
  <2> QED BY <1>1, <2>1, <2>6, AlignedKept
<1>5. ASSUME NEW s \in Sessions, ComputeScore(s) PROVE AlignedInv'
  <2>1. PICK new \in SessionRecord :
          /\ session' = [session EXCEPT ![s] = new] /\ new.state = "scored"
          /\ SameLists(new, session[s])
    BY <1>5, ScoredRow
  <2>2. AlignedRow(new)
    BY <1>2, <1>5, <2>1 DEF ComputeScore, AlignedRow, SameLists
  <2> QED BY <1>1, <2>1, <2>2, AlignedKept
<1>6. ASSUME NEW s \in Sessions, HandleProcessingTools(s) PROVE AlignedInv'
  <2>1. PICK new \in SessionRecord, n \in Nat :
          /\ session' = [session EXCEPT ![s] = new]
          /\ SameLists(new, session[s]) \/ Grown(new, session[s], "tool", n)
          /\ new.state \in {"waiting", "error", "terminated"}
    BY <1>6, ToolsRow
  <2>2. session[s].state = "tools" /\ "tool" \in Words
    BY <1>6 DEF HandleProcessingTools, Words
  <2>3. PICK p \in 1..PromptLength :
          Aligned(session[s].ids, session[s].mask, session[s].logp, p) /\ Len(session[s].mask) > 0
    BY <1>2, <2>2 DEF AlignedRow
  <2>4. Aligned(new.ids, new.mask, new.logp, p) /\ Len(new.mask) > 0
    <3>1. CASE SameLists(new, session[s])
      BY <2>3, <3>1 DEF SameLists
    <3>2. CASE Grown(new, session[s], "tool", n)
      BY <1>2, <2>2, <2>3, <3>2, GrownAligned
    <3> QED BY <2>1, <3>1, <3>2
  <2>5. AlignedRow(new)
    BY <2>1, <2>4 DEF AlignedRow
  <2> QED BY <1>1, <2>1, <2>5, AlignedKept
<1>7. ASSUME NEW s \in Sessions, HandleInteracting(s) PROVE AlignedInv'
  <2>1. PICK new \in SessionRecord, n \in Nat :
          /\ session' = [session EXCEPT ![s] = new]
          /\ Grown(new, session[s], "user", n)
          /\ new.state \in {"waiting", "error", "terminated"}
    BY <1>7, InteractingRow
  <2>2. session[s].state = "interacting" /\ "user" \in Words
    BY <1>7 DEF HandleInteracting, Words
  <2>3. PICK p \in 1..PromptLength :
          Aligned(session[s].ids, session[s].mask, session[s].logp, p) /\ Len(session[s].mask) > 0
    BY <1>2, <2>2 DEF AlignedRow
  <2>4. Aligned(new.ids, new.mask, new.logp, p) /\ Len(new.mask) > 0
    BY <1>2, <2>1, <2>2, <2>3, GrownAligned
  <2>5. AlignedRow(new)
    BY <2>1, <2>4 DEF AlignedRow
  <2> QED BY <1>1, <2>1, <2>5, AlignedKept
<1>8. CASE (\E c \in Calls : CallStep(c)) \/ Release \/ ManagerStep \/ UNCHANGED vars
  <2>1. UNCHANGED session
    BY <1>8 DEF CallStep, StartThread, Acquire, Execute, AnswerCall, Release, ManagerStep,
                WakeUp, Sleep, DispatchChunks, Collect, Raise, vars
  <2> QED BY <1>1, <2>1 DEF AlignedInv, AlignedRow, Aligned
<1> QED BY <1>3, <1>4, <1>5, <1>6, <1>7, <1>8 DEF Next, CallStep, ManagerStep

\* A list cut at the response length and padded to it.
Limit(n) == IF n < ResponseLength THEN n ELSE ResponseLength

LEMMA CutAndPadded ==
  ASSUME NEW S, NEW seq \in Seq(S), NEW x \in S
  PROVE  /\ Len(Truncated(seq)) = Limit(Len(seq))
         /\ Len(PadRight(Truncated(seq), x)) = ResponseLength
         /\ \A i \in 1..ResponseLength :
              PadRight(Truncated(seq), x)[i] = IF i <= Limit(Len(seq)) THEN seq[i] ELSE x
<1> DEFINE k   == Limit(Len(seq))
           cut == SubSeq(seq, 1, k)
<1>1. ResponseLength \in Nat /\ Len(seq) \in Nat
  BY LengthsAssumption
<1>2. k \in Nat /\ k <= Len(seq) /\ k <= ResponseLength
  BY <1>1 DEF Limit
<1>3. Truncated(seq) = cut
  BY DEF Truncated, Limit
<1> HIDE DEF k
<1>4. cut \in Seq(S) /\ Len(cut) = k /\ \A i \in 1..k : cut[i] = seq[i]
  <2>1. \A i \in 1..k : seq[i] \in S
    BY <1>1, <1>2
  <2>2. 1 <= k + 1
    BY <1>2
  <2> QED BY <1>1, <1>2, <2>1, <2>2, SubSeqProperties
<1> HIDE DEF cut
<1>5. PadRight(cut, x) = cut \o Repeat(x, ResponseLength - k) /\ ResponseLength - k \in Nat
  BY <1>1, <1>2, <1>4 DEF PadRight
<1> DEFINE n == ResponseLength - k
<1>6. n \in Nat /\ k + n = ResponseLength /\ PadRight(cut, x) = cut \o Repeat(x, n)
  BY <1>1, <1>2, <1>5
<1> HIDE DEF n
<1>7. /\ Len(PadRight(cut, x)) = k + n
      /\ \A i \in 1..(k + n) : PadRight(cut, x)[i] = IF i <= k THEN cut[i] ELSE x
  <2>1. Extended(PadRight(cut, x), cut, x, n)
    BY <1>6 DEF Extended
  <2>2. Longer(PadRight(cut, x), cut, x, n)
    BY <1>4, <1>6, <2>1, RepeatedElements
  <2> QED BY <1>4, <2>2 DEF Longer
<1>8. \A i \in 1..ResponseLength : PadRight(cut, x)[i] = IF i <= k THEN seq[i] ELSE x
  BY <1>2, <1>4, <1>6, <1>7
<1> QED BY <1>3, <1>4, <1>6, <1>7, <1>8 DEF k

LEMMA PromptPadded ==
  ASSUME NEW ids \in Seq(Kinds), NEW p \in 1..PromptLength, p <= Len(ids),
         \A i \in 1..p : ids[i] = "prompt"
  PROVE  /\ Range(PadLeft(SubSeq(ids, 1, p))) \subseteq {"pad", "prompt"}
         /\ Len(PadLeft(SubSeq(ids, 1, p))) = PromptLength
<1> DEFINE S   == {"pad", "prompt"}
           cut == SubSeq(ids, 1, p)
           n   == PromptLength - p
<1>1. p \in Nat /\ PromptLength \in Nat /\ n \in Nat /\ n + p = PromptLength /\ Len(ids) \in Nat
  BY LengthsAssumption
<1>2. cut \in Seq(S) /\ Len(cut) = p
  <2>1. \A i \in 1..p : ids[i] \in S
    OBVIOUS
  <2>2. 1 <= p + 1
    BY <1>1
  <2> HIDE DEF S
  <2> QED BY <1>1, <2>1, <2>2, SubSeqProperties
<1>3. Repeat("pad", n) \in Seq(S) /\ Len(Repeat("pad", n)) = n
  <2>1. "pad" \in S
    OBVIOUS
  <2> HIDE DEF S, n
  <2> QED BY <1>1, <2>1, RepeatSeq
<1>4. PadLeft(cut) = Repeat("pad", n) \o cut
  <2> HIDE DEF cut
  <2> QED BY <1>2 DEF PadLeft
<1> HIDE DEF S, cut, n
<1>5. Repeat("pad", n) \o cut \in Seq(S) /\ Len(Repeat("pad", n) \o cut) = n + p
  BY <1>2, <1>3, <1>1, Appended
<1>6. Range(Repeat("pad", n) \o cut) \subseteq S
  BY <1>5 DEF Range
<1> QED BY <1>1, <1>4, <1>5, <1>6 DEF S, cut

LEMMA RowAligned ==
  ASSUME Typed, NEW s \in Sessions, NEW p \in 1..PromptLength,
         Aligned(session[s].ids, session[s].mask, session[s].logp, p), Len(session[s].mask) > 0
  PROVE  LET row == Row(s) IN
           /\ Range(row.prompt) \subseteq {"pad", "prompt"} /\ Len(row.prompt) = PromptLength
           /\ Len(row.mask) = ResponseLength /\ Len(row.response) = ResponseLength
           /\ row.logp = <<>> <=> ~config.logprobs
           /\ \A i \in 1..ResponseLength :
                /\ row.mask[i] = 1 <=> row.response[i] = "gen"
                /\ config.logprobs => (row.mask[i] = 1 <=> row.logp[i] = "logp")
                /\ row.response[i] = "pad" <=> i > row.reward
           /\ row.response[1] = "gen"
<1> DEFINE ids  == session[s].ids
           mask == session[s].mask
           logp == session[s].logp
           said == SubSeq(ids, p + 1, Len(ids))
           k    == Limit(Len(mask))
           row  == Row(s)
<1>1. ids \in Seq(Kinds) /\ mask \in Seq(Bits) /\ logp \in Seq(Kinds) /\ config.logprobs \in BOOLEAN
  BY ConfigFacts DEF Typed, SessionRecord
<1>2. /\ p \in Nat \ {0} /\ Len(mask) \in Nat /\ Len(ids) \in Nat /\ ResponseLength \in Nat \ {0}
      /\ Len(ids) = p + Len(mask) /\ Len(ids) - Len(mask) = p
  BY <1>1, LengthsAssumption DEF Aligned
<1>3. /\ row.prompt = PadLeft(SubSeq(ids, 1, p))
      /\ row.response = PadRight(Truncated(said), "pad")
      /\ row.mask = PadRight(Truncated(mask), 0)
      /\ row.logp = IF logp = <<>> THEN <<>> ELSE PadRight(Truncated(logp), "pad")
      /\ row.reward = Len(Truncated(said))
  BY <1>2 DEF Row
<1>4. /\ \A i \in 1..p : ids[i] = "prompt"
      /\ \A i \in 1..Len(mask) : /\ ids[p + i] \in Words
                                 /\ mask[i] = 1 <=> ids[p + i] = "gen"
                                 /\ config.logprobs => (mask[i] = 1 <=> logp[i] = "logp")
      /\ mask[1] = 1
      /\ IF config.logprobs THEN Len(logp) = Len(mask) ELSE logp = <<>>
  BY DEF Aligned
<1>5. Len(mask) > 0
  OBVIOUS
<1> HIDE DEF ids, mask, logp, row
<1>6. said \in Seq(Kinds) /\ Len(said) = Len(mask) /\ \A i \in 1..Len(mask) : said[i] = ids[p + i]
  <2>1. \A i \in (p + 1)..Len(ids) : ids[i] \in Kinds
    BY <1>1, <1>2
  <2>2. p + 1 \in Int /\ Len(ids) \in Int /\ p + 1 <= Len(ids) + 1 /\ Len(ids) - (p + 1) + 1 = Len(mask)
    BY <1>2
  <2>3. /\ said \in Seq(Kinds) /\ Len(said) = Len(ids) - (p + 1) + 1
        /\ \A i \in 1..(Len(ids) - (p + 1) + 1) : said[i] = ids[(p + 1) + i - 1]
    BY <1>1, <2>1, <2>2, SubSeqProperties
  <2>4. \A i \in 1..Len(mask) : (p + 1) + i - 1 = p + i
    BY <1>2
  <2> QED BY <2>2, <2>3, <2>4
<1> HIDE DEF said
<1>7. k \in 1..Len(mask) /\ k <= ResponseLength
  BY <1>2, <1>5 DEF Limit
<1>8. /\ row.reward = k /\ Len(row.response) = ResponseLength
      /\ \A i \in 1..ResponseLength : row.response[i] = IF i <= k THEN said[i] ELSE "pad"
  <2>1. "pad" \in Kinds
    BY DEF Kinds
  <2> QED BY <1>3, <1>6, <2>1, CutAndPadded
<1>9. /\ Len(row.mask) = ResponseLength
      /\ \A i \in 1..ResponseLength : row.mask[i] = IF i <= k THEN mask[i] ELSE 0
  <2>1. 0 \in Bits
    BY DEF Bits
  <2> QED BY <1>1, <1>3, <2>1, CutAndPadded
<1>10. config.logprobs =>
        /\ Len(row.logp) = ResponseLength
        /\ \A i \in 1..ResponseLength : row.logp[i] = IF i <= k THEN logp[i] ELSE "pad"
  <2>1. "pad" \in Kinds
    BY DEF Kinds
  <2>2. config.logprobs => logp # <<>> /\ Len(logp) = Len(mask)
    BY <1>4, <1>5
  <2> QED BY <1>1, <1>3, <2>1, <2>2, CutAndPadded
<1>11. row.logp = <<>> <=> ~config.logprobs
  BY <1>2, <1>3, <1>4, <1>10
<1> HIDE DEF k
<1>12. ASSUME NEW i \in 1..ResponseLength
       PROVE  /\ row.mask[i] = 1 <=> row.response[i] = "gen"
              /\ config.logprobs => (row.mask[i] = 1 <=> row.logp[i] = "logp")
              /\ row.response[i] = "pad" <=> i > row.reward
  <2>1. CASE i <= k
    <3>1. i \in 1..Len(mask)
      BY <1>2, <1>7, <2>1
    <3>2. row.response[i] = ids[p + i] /\ row.mask[i] = mask[i]
      BY <1>6, <1>8, <1>9, <2>1, <3>1
    <3>3. config.logprobs => row.logp[i] = logp[i]
      BY <1>10, <2>1
    <3>4. ids[p + i] # "pad" /\ ~(i > k)
      BY <1>2, <1>4, <1>7, <2>1, <3>1 DEF Words
    <3> QED BY <1>4, <1>8, <3>1, <3>2, <3>3, <3>4
  <2>2. CASE ~(i <= k)
    <3>1. row.response[i] = "pad" /\ row.mask[i] = 0 /\ i > k
      BY <1>2, <1>7, <1>8, <1>9, <2>2
    <3>2. config.logprobs => row.logp[i] = "pad"
      BY <1>10, <2>2
    <3> QED BY <1>8, <3>1, <3>2
  <2> QED BY <2>1, <2>2
<1>13. row.response[1] = "gen"
  <2>1. 1 \in 1..ResponseLength /\ 1 <= k /\ 1 \in 1..Len(mask)
    BY <1>2, <1>5, <1>7
  <2> QED BY <1>4, <1>6, <1>8, <2>1
<1>14. Range(row.prompt) \subseteq {"pad", "prompt"} /\ Len(row.prompt) = PromptLength
  <2>1. p <= Len(ids)
    BY <1>2
  <2> QED BY <1>1, <1>3, <1>4, <2>1, PromptPadded
<1> QED BY <1>8, <1>9, <1>11, <1>12, <1>13, <1>14 DEF row

\* After truncation and padding the three lists of every finished row are aligned, for
\* every length of prompts, generations, observations and words of a user.
THEOREM OutputAlignedHolds == Spec => []OutputAligned
<1>1. Typed /\ AlignedInv /\ [Next]_vars => Typed' /\ AlignedInv'
  BY TypedStep, AlignedStep
<1>2. Typed /\ AlignedInv => OutputAligned
  <2> SUFFICES ASSUME Typed, AlignedInv PROVE OutputAligned
    OBVIOUS
  <2>1. ASSUME NEW s \in Sessions, session[s].state \in {"terminated", "scored"}
        PROVE  \E p \in 1..PromptLength :
                 /\ Aligned(session[s].ids, session[s].mask, session[s].logp, p)
                 /\ Len(session[s].mask) > 0
    BY <2>1 DEF AlignedInv, AlignedRow
  <2> QED BY <2>1, RowAligned DEF OutputAligned
<1> QED BY <1>1, <1>2, TypedInit, AlignedInit, PTL DEF Spec

-----------------------------------------------------------------------------
(* RewardRouter.  A request waits for another attempt only while one is left, *)
(* which is what keeps the attempts within their limit.                       *)
AttemptLeft == \A r \in Requests : pc[r] = "delayed" => attempt[r] < MaxAttempts - 1

\* Giving a count back leaves the other counts alone and lowers this one by at most one.
LEMMA ReleaseLowers ==
  ASSUME RouterTypeOK, NEW w, ReleaseWorker(w)
  PROVE  /\ requestCounts' \in [RewardWorkers -> Nat]
         /\ \A v \in RewardWorkers : requestCounts'[v] =
              IF v = w /\ requestCounts[v] > 0 THEN requestCounts[v] - 1 ELSE requestCounts[v]
<1> DEFINE lowered == IF requestCounts[w] > 0 THEN requestCounts[w] - 1 ELSE 0
<1>1. requestCounts' = [requestCounts EXCEPT ![w] = lowered]
  BY DEF ReleaseWorker
<1>2. CASE w \in RewardWorkers
  <2>1. requestCounts[w] \in Nat
    BY <1>2 DEF RouterTypeOK
  <2>2. lowered \in Nat /\ (requestCounts[w] = 0 => lowered = 0)
    BY <2>1
  <2> HIDE DEF lowered
  <2>3. requestCounts' \in [RewardWorkers -> Nat]
    BY <1>1, <2>2 DEF RouterTypeOK
  <2>4. requestCounts'[w] = lowered
    BY <1>1, <1>2 DEF RouterTypeOK
  <2>5. \A v \in RewardWorkers : v # w => requestCounts'[v] = requestCounts[v]
    BY <1>1 DEF RouterTypeOK
  <2> QED BY <2>1, <2>3, <2>4, <2>5 DEF lowered
<1>3. CASE w \notin RewardWorkers
  <2>1. requestCounts' = requestCounts
    BY <1>1, <1>3 DEF RouterTypeOK
  <2> QED BY <1>3, <2>1 DEF RouterTypeOK
<1> QED BY <1>2, <1>3

LEMMA RouterTypeStep ==
  ASSUME RouterTypeOK, AttemptLeft, [RouterNext]_routerVars
  PROVE  RouterTypeOK' /\ AttemptLeft'
<1> USE AttemptsAssumption DEF RouterTypeOK, AttemptLeft
<1>1. ASSUME NEW r \in Requests, SelectWorker(r) PROVE RouterTypeOK' /\ AttemptLeft'
  <2>1. PICK w \in RewardWorkers : /\ requestCounts' = [requestCounts EXCEPT ![w] = @ + 1]
                             /\ worker' = [worker EXCEPT ![r] = w]
    BY <1>1 DEF SelectWorker
  <2>2. requestCounts' \in [RewardWorkers -> Nat]
    BY <2>1
  <2> QED BY <1>1, <2>1, <2>2 DEF SelectWorker
<1>2. ASSUME NEW r \in Requests, Answer(r) PROVE RouterTypeOK' /\ AttemptLeft'
  <2>1. requestCounts' \in [RewardWorkers -> Nat]
    BY <1>2, ReleaseLowers DEF Answer
  <2> QED BY <1>2, <2>1 DEF Answer
<1>3. ASSUME NEW r \in Requests, Retry(r) PROVE RouterTypeOK' /\ AttemptLeft'
  BY <1>3 DEF Retry
<1>4. ASSUME NEW r \in Requests, SendAgain(r) PROVE RouterTypeOK' /\ AttemptLeft'
  BY <1>4 DEF SendAgain
<1>5. ASSUME NEW r \in Requests, RaiseHttpError(r) PROVE RouterTypeOK' /\ AttemptLeft'
  BY <1>5 DEF RaiseHttpError
<1>6. CASE UNCHANGED routerVars
  BY <1>6 DEF routerVars
<1> QED BY <1>1, <1>2, <1>3, <1>4, <1>5, <1>6 DEF RouterNext

LEMMA RouterTypeInit == RouterInit => RouterTypeOK /\ AttemptLeft
BY AttemptsAssumption DEF RouterInit, RouterTypeOK, AttemptLeft

\* Every variable keeps its type: no count leaves the naturals, and no request makes more
\* than MaxAttempts attempts, however failures, delays and answers interleave.
THEOREM RouterTypeCorrect == RouterSpec => []RouterTypeOK
<1>1. RouterTypeOK /\ AttemptLeft /\ [RouterNext]_routerVars => RouterTypeOK' /\ AttemptLeft'
  BY RouterTypeStep
<1> QED BY RouterTypeInit, <1>1, PTL DEF RouterSpec

-----------------------------------------------------------------------------
(* The counts.                                                                *)

\* The requests a worker's count stands for.
CountedOn(w) == Held(w) \cup Failed(w)

LEMMA CountedFinite ==
  ASSUME NEW w
  PROVE  /\ IsFiniteSet(CountedOn(w)) /\ Cardinality(CountedOn(w)) \in Nat
         /\ \A r \in Requests : r \in CountedOn(w) <=>
              worker[r] = w /\ pc[r] \in {"sending", "delayed", "failed"}
<1>1. CountedOn(w) \subseteq Requests
  BY DEF CountedOn, Held, Failed
<1>2. IsFiniteSet(CountedOn(w))
  BY <1>1, RequestsAssumption, FS_Subset
<1> QED BY <1>2, FS_CardinalityType DEF CountedOn, Held, Failed

\* An answer takes its request out of the requests counted on its worker, and out of no
\* other's; the clamp at zero is never reached.
LEMMA AnswerCounted ==
  ASSUME RouterTypeOK, CountsExplained, NEW r \in Requests, Answer(r)
  PROVE  CountsExplained'
<1> SUFFICES ASSUME NEW w \in RewardWorkers
             PROVE  requestCounts'[w] = Cardinality(CountedOn(w)')
  BY DEF CountsExplained, CountedOn
<1>1. requestCounts[w] = Cardinality(CountedOn(w)) /\ requestCounts[w] \in Nat
  BY CountedFinite DEF CountsExplained, CountedOn
<1>2. requestCounts'[w] = IF w = worker[r] /\ requestCounts[w] > 0
                          THEN requestCounts[w] - 1 ELSE requestCounts[w]
  BY ReleaseLowers DEF Answer
<1>3. CountedOn(w)' = CountedOn(w) \ {r}
  BY DEF Answer, RouterTypeOK, CountedOn, Held, Failed
<1>4. r \in CountedOn(w) <=> worker[r] = w
  BY DEF Answer, CountedOn, Held, Failed
<1>5. Cardinality(CountedOn(w) \ {r}) = IF r \in CountedOn(w) THEN Cardinality(CountedOn(w)) - 1
                                      ELSE Cardinality(CountedOn(w))
  BY CountedFinite, FS_RemoveElement
<1>6. r \in CountedOn(w) => Cardinality(CountedOn(w)) > 0
  BY CountedFinite, FS_EmptySet
<1> QED BY <1>1, <1>2, <1>3, <1>4, <1>5, <1>6

LEMMA SelectCounted ==
  ASSUME RouterTypeOK, CountsExplained, NEW r \in Requests, SelectWorker(r)
  PROVE  CountsExplained'
<1>1. PICK u \in RewardWorkers : /\ requestCounts' = [requestCounts EXCEPT ![u] = @ + 1]
                           /\ worker' = [worker EXCEPT ![r] = u]
  BY DEF SelectWorker
<1> SUFFICES ASSUME NEW w \in RewardWorkers
             PROVE  requestCounts'[w] = Cardinality(CountedOn(w)')
  BY DEF CountsExplained, CountedOn
<1>2. requestCounts[w] = Cardinality(CountedOn(w)) /\ requestCounts[w] \in Nat
  BY CountedFinite DEF CountsExplained, CountedOn
<1>3. r \notin CountedOn(w)
  BY DEF SelectWorker, CountedOn, Held, Failed
<1>4. CASE w = u
  <2>1. CountedOn(w)' = CountedOn(w) \cup {r}
    BY <1>1, <1>4 DEF SelectWorker, RouterTypeOK, CountedOn, Held, Failed
  <2>2. Cardinality(CountedOn(w) \cup {r}) = Cardinality(CountedOn(w)) + 1
    BY <1>3, CountedFinite, FS_AddElement
  <2>3. requestCounts'[w] = requestCounts[w] + 1
    BY <1>1, <1>4 DEF RouterTypeOK
  <2> QED BY <1>2, <2>1, <2>2, <2>3
<1>5. CASE w # u
  <2>1. CountedOn(w)' = CountedOn(w)
    BY <1>1, <1>3, <1>5 DEF SelectWorker, RouterTypeOK, CountedOn, Held, Failed
  <2>2. requestCounts'[w] = requestCounts[w]
    BY <1>1, <1>5 DEF RouterTypeOK
  <2> QED BY <1>2, <2>1, <2>2
<1> QED BY <1>4, <1>5

\* A failed attempt, a retry and an error move a request between states that count.
LEMMA KeptCounted ==
  ASSUME RouterTypeOK, CountsExplained, NEW r \in Requests,
         Retry(r) \/ SendAgain(r) \/ RaiseHttpError(r)
  PROVE  CountsExplained'
<1>1. UNCHANGED <<requestCounts, worker>>
  BY DEF Retry, SendAgain, RaiseHttpError
<1>2. \A q \in Requests : pc[q] \in {"sending", "delayed", "failed"} <=>
                          pc'[q] \in {"sending", "delayed", "failed"}
  BY DEF Retry, SendAgain, RaiseHttpError, RouterTypeOK
<1>3. \A w \in RewardWorkers : CountedOn(w)' = CountedOn(w)
  BY <1>1, <1>2 DEF CountedOn, Held, Failed
<1> QED BY <1>1, <1>3 DEF CountsExplained, CountedOn, RewardWorkers

LEMMA CountsInit == RouterInit => CountsExplained
<1> SUFFICES ASSUME RouterInit, NEW w \in RewardWorkers
             PROVE  requestCounts[w] = Cardinality(Held(w) \cup Failed(w))
  BY DEF CountsExplained
<1>1. Held(w) \cup Failed(w) = {}
  BY DEF RouterInit, Held, Failed
<1> QED BY <1>1, FS_EmptySet DEF RouterInit

\* The count a worker is ranked by is the requests it holds and those that failed on it,
\* for every number of workers, requests and attempts: retries are not counted twice and
\* no release is swallowed by the clamp at zero.
THEOREM CountsExplainedHolds == RouterSpec => []CountsExplained
<1>1. RouterTypeOK /\ AttemptLeft /\ CountsExplained /\ [RouterNext]_routerVars => CountsExplained'
  <2> SUFFICES ASSUME RouterTypeOK, CountsExplained, [RouterNext]_routerVars PROVE CountsExplained'
    OBVIOUS
  <2>1. CASE UNCHANGED routerVars
    BY <2>1 DEF routerVars, CountsExplained, Held, Failed, RewardWorkers
  <2>2. CASE RouterNext
    BY <2>2, AnswerCounted, SelectCounted, KeptCounted DEF RouterNext
  <2> QED BY <2>1, <2>2
<1>2. RouterTypeOK /\ AttemptLeft /\ [RouterNext]_routerVars => RouterTypeOK' /\ AttemptLeft'
  BY RouterTypeStep
<1> QED BY RouterTypeInit, CountsInit, <1>1, <1>2, PTL DEF RouterSpec
=============================================================================
