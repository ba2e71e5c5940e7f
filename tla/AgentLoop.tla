------------------------------ MODULE AgentLoop ------------------------------
(* One generate_sequences call of the agent loop: the manager wakes the       *)
(* rollout replicas, its workers run every row as a coroutine that alternates *)
(* between generating, calling tools and talking to a user, and search calls  *)
(* of all rows share one rate limiter.                                        *)
(*   verl/experimental/agent_loop/{agent_loop,tool_agent_loop}.py             *)
(*   verl/tools/search_tool.py, vllm_rollout/vllm_async_server.py             *)
EXTENDS Integers, SequencesExt

CONSTANTS Configs,         \* [rowsOf, servers, freeCache, interaction, logprobs, parallel, threads, rate, turns, users]
          PromptLength, ResponseLength,
          MaxChunk         \* bound: tokens of one generation, observation or prompt part

\* rowsOf[w] are the rows of worker w, chunks of the batch; turns and users bound the turns
\* of the assistant and of the user, 0 for no bound.
ValidConfig(c) ==
  /\ \A w, v \in DOMAIN c.rowsOf : w # v => c.rowsOf[w] \cap c.rowsOf[v] = {}
  /\ c.servers # {}
  /\ {c.freeCache, c.interaction, c.logprobs} \subseteq BOOLEAN
  /\ {c.parallel, c.threads, c.rate} \subseteq Nat \ {0} /\ {c.turns, c.users} \subseteq Nat

ASSUME ConfigsAssumption == \A c \in Configs : ValidConfig(c)
ASSUME LengthsAssumption == {PromptLength, ResponseLength, MaxChunk} \subseteq Nat \ {0}

VARIABLES config,
          manager,     \* where generate_sequences is
          awake,       \* servers whose engine is awake
          session,     \* of each row: state, server, ids, mask, logp, turns, users
          call,        \* of each row, the phase of each of its tool calls
          instances,   \* <<row, call>> with an entry in the tool's _instance_dict
          tokens,      \* free tokens of the rate limiter
          releases     \* release messages on their way to the limiter
vars == <<config, manager, awake, session, call, instances, tokens, releases>>

Workers  == DOMAIN config.rowsOf
Sessions == UNION {config.rowsOf[w] : w \in Workers}
WorkerOf(s) == CHOOSE w \in Workers : s \in config.rowsOf[w]
Calls == {c \in Sessions \X (1..config.parallel) : c[2] \in DOMAIN call[c[1]]}
CallsIn(phases) == {c \in Calls : call[c[1]][c[2]] \in phases}

Repeat(x, n) == [i \in 1..n |-> x]

-----------------------------------------------------------------------------
(* One row.                                                                   *)

MaxModelLen == PromptLength + ResponseLength
Room(ids) == MaxModelLen - Len(ids)

\* Fewest rows assigned by the row's own worker; a row keeps its server.
ChooseServer(s, v) ==
  LET Assigned(u) == Cardinality({r \in config.rowsOf[WorkerOf(s)] : session[r].server = u})
  IN IF session[s].server # 0 THEN v = session[s].server
     ELSE \A u \in config.servers : Assigned(v) <= Assigned(u)

\* Sends the request for the next generation.  The server sets max_tokens to what room is
\* left; a request without room is refused, and the row fails.
Asking(sess) == [sess EXCEPT !.state = IF Room(sess.ids) > 0 THEN "waiting" ELSE "error"]

\* Tokens the model did not write, appended to the three lists.
\* Mutant: the log-probs are not padded.
Observe_NoLogprobs(sess, kind, n) ==
  [sess EXCEPT !.ids = @ \o Repeat(kind, n), !.mask = @ \o Repeat(0, n), !.users = @ + 1]

Observe(sess, kind, n) ==
  [sess EXCEPT !.ids = @ \o Repeat(kind, n),
               !.mask = @ \o Repeat(0, n),
               !.logp = IF @ = <<>> THEN @ ELSE @ \o Repeat("pad", n),
               !.users = @ + 1]

HandlePending(s) ==
  /\ manager = "generating" /\ session[s].state = "pending"
  /\ \E n \in 1..PromptLength, v \in config.servers :
       /\ ChooseServer(s, v)
       /\ session' = [session EXCEPT ![s] =
            Asking([@ EXCEPT !.ids = Repeat("prompt", n), !.server = v])]
  /\ UNCHANGED <<config, manager, awake, call, instances, tokens, releases>>

\* Generation stops at a full response or at the last turn of either side.
Exhausted(sess) ==
  \/ Len(sess.mask) >= ResponseLength
  \/ config.turns # 0 /\ sess.turns >= config.turns
  \/ config.users # 0 /\ sess.users >= config.users

AfterGenerating(sess, called) ==
  IF Exhausted(sess) THEN "terminated"
  ELSE IF called THEN "tools"
  ELSE IF config.interaction THEN "interacting"
  ELSE "terminated"

\* Calls run up to their first wait: an unknown tool or malformed arguments end at once, a
\* call without queries creates and releases its instance, the others join the pool.
StartedCalls(called) ==
  IF called THEN UNION {[1..n -> {"answered", "queued"}] : n \in 1..config.parallel} ELSE {<<>>}

Queued(s, calls) == {<<s, k>> : k \in {j \in DOMAIN calls : calls[j] = "queued"}}

HandleGenerating(s) ==
  /\ session[s].state = "waiting"
  /\ \E n \in 1..MaxChunk, called \in BOOLEAN :
       /\ n <= Room(session[s].ids)
       /\ LET old   == session[s]
              grown == [old EXCEPT !.ids = @ \o Repeat("gen", n),
                                   !.mask = @ \o Repeat(1, n),
                                   !.logp = IF config.logprobs THEN @ \o Repeat("logp", n) ELSE @,
                                   !.turns = @ + 1]
              next  == AfterGenerating(grown, called)
          IN /\ session' = [session EXCEPT ![s] = [grown EXCEPT !.state = next]]
             /\ \E calls \in StartedCalls(next = "tools") :
                  /\ call' = [call EXCEPT ![s] = calls]
                  /\ instances' = instances \cup Queued(s, calls)
  /\ UNCHANGED <<config, manager, awake, tokens, releases>>

\* Mutant: an observation that fills the response is still appended.
NoRoomFor_Strict(sess, n) == Len(sess.mask) + n > ResponseLength

NoRoomFor(sess, n) == Len(sess.mask) + n >= ResponseLength

\* All calls answered: their responses become one observation, if there is room.
HandleProcessingTools(s) ==
  /\ session[s].state = "tools" /\ \A k \in DOMAIN call[s] : call[s][k] = "answered"
  /\ \E n \in 1..MaxChunk :
       session' = [session EXCEPT ![s] =
         IF NoRoomFor(@, n) THEN [@ EXCEPT !.state = "terminated"]
                            ELSE Asking(Observe(@, "tool", n))]
  /\ call' = [call EXCEPT ![s] = <<>>]
  /\ UNCHANGED <<config, manager, awake, instances, tokens, releases>>

\* The user's words are appended without asking for room.
HandleInteracting(s) ==
  /\ session[s].state = "interacting"
  /\ \E n \in 1..MaxChunk, ends \in BOOLEAN :
       session' = [session EXCEPT ![s] =
         LET heard == Observe(@, "user", n)
         IN IF ends THEN [heard EXCEPT !.state = "terminated"] ELSE Asking(heard)]
  /\ UNCHANGED <<config, manager, awake, call, instances, tokens, releases>>

\* The output row is padded and scored.
ComputeScore(s) ==
  /\ session[s].state = "terminated"
  /\ session' = [session EXCEPT ![s].state = "scored"]
  /\ UNCHANGED <<config, manager, awake, call, instances, tokens, releases>>

Truncated(seq) == SubSeq(seq, 1, IF Len(seq) < ResponseLength THEN Len(seq) ELSE ResponseLength)
PadRight(seq, x) == seq \o Repeat(x, ResponseLength - Len(seq))
PadLeft(seq) == Repeat("pad", PromptLength - Len(seq)) \o seq

\* The row of a terminated session.
Row(s) ==
  LET sess     == session[s]
      first    == Len(sess.ids) - Len(sess.mask)
      response == Truncated(SubSeq(sess.ids, first + 1, Len(sess.ids)))
  IN [prompt   |-> PadLeft(SubSeq(sess.ids, 1, first)),
      response |-> PadRight(response, "pad"),
      mask     |-> PadRight(Truncated(sess.mask), 0),
      logp     |-> IF sess.logp = <<>> THEN <<>> ELSE PadRight(Truncated(sess.logp), "pad"),
      reward   |-> Len(response)]

-----------------------------------------------------------------------------
(* A tool call: a thread of the execution pool, the rate limiter, and the     *)
(* release of the instance.                                                   *)

SetPhase(c, from, to) ==
  /\ call[c[1]][c[2]] = from
  /\ call' = [call EXCEPT ![c[1]][c[2]] = to]

\* A pool thread takes the call and asks the limiter for a token.
StartThread(c) ==
  /\ Cardinality(CallsIn({"acquiring", "executing"})) < config.threads
  /\ SetPhase(c, "queued", "acquiring")
  /\ UNCHANGED <<config, manager, awake, session, instances, tokens, releases>>

Acquire(c) ==
  /\ tokens > 0
  /\ SetPhase(c, "acquiring", "executing")
  /\ tokens' = tokens - 1
  /\ UNCHANGED <<config, manager, awake, session, instances, releases>>

\* The search answers or raises; both ways the exit stack sends a release.
\* Mutant: only a search that answers sends it.
Execute_ReleaseOnSuccess(c) ==
  /\ SetPhase(c, "executing", "returned")
  /\ releases' \in {releases, releases + 1}
  /\ UNCHANGED <<config, manager, awake, session, instances, tokens>>

Execute(c) ==
  /\ SetPhase(c, "executing", "returned")
  /\ releases' = releases + 1
  /\ UNCHANGED <<config, manager, awake, session, instances, tokens>>

\* Acquire and release messages run on threads of their own.
\* Mutant: one thread serves both, and an acquire without a token keeps it.
LimiterFree_OneGroup == CallsIn({"acquiring"}) = {}

LimiterFree == TRUE

Release ==
  /\ releases > 0 /\ LimiterFree
  /\ releases' = releases - 1
  /\ tokens' = tokens + 1
  /\ UNCHANGED <<config, manager, awake, session, call, instances>>

\* The coroutine resumes with the result or the error and releases its instance.
AnswerCall(c) ==
  /\ SetPhase(c, "returned", "answered")
  /\ instances' = instances \ {c}
  /\ UNCHANGED <<config, manager, awake, session, tokens, releases>>

-----------------------------------------------------------------------------
(* The manager.  A worker answers when all its rows have, and raises with the *)
(* first that does; the others run on.                                        *)

Finished(w) == \A s \in config.rowsOf[w] : session[s].state = "scored"
Raised(w)   == \E s \in config.rowsOf[w] : session[s].state = "error"

WakeUp(v) ==
  /\ manager = "waking" /\ v \notin awake
  /\ awake' = awake \cup {v}
  /\ UNCHANGED <<config, manager, session, call, instances, tokens, releases>>

DispatchChunks ==
  /\ manager = "waking" /\ awake = config.servers
  /\ manager' = "generating"
  /\ UNCHANGED <<config, awake, session, call, instances, tokens, releases>>

\* Mutant: the first worker's answer is enough.
AllAnswered_Any == \E w \in Workers : Finished(w)

AllAnswered == \A w \in Workers : Finished(w)

Collect ==
  /\ manager = "generating" /\ AllAnswered
  /\ manager' = IF config.freeCache THEN "sleeping" ELSE "done"
  /\ UNCHANGED <<config, awake, session, call, instances, tokens, releases>>

Raise ==
  /\ manager = "generating" /\ \E w \in Workers : Raised(w)
  /\ manager' = "failed"
  /\ UNCHANGED <<config, awake, session, call, instances, tokens, releases>>

\* A replica drains its requests and sleeps; the call returns when all do.
Sleep(v) ==
  /\ manager = "sleeping" /\ v \in awake
  /\ \A s \in Sessions : ~(session[s].state = "waiting" /\ session[s].server = v)
  /\ awake' = awake \ {v}
  /\ manager' = IF awake' = {} THEN "done" ELSE manager
  /\ UNCHANGED <<config, session, call, instances, tokens, releases>>

Init ==
  /\ config \in Configs
  /\ manager = "waking"
  /\ awake = IF config.freeCache THEN {} ELSE config.servers
  /\ session = [s \in Sessions |-> [state |-> "pending", server |-> 0, ids |-> <<>>,
                                    mask |-> <<>>, logp |-> <<>>, turns |-> 0, users |-> 0]]
  /\ call = [s \in Sessions |-> <<>>]
  /\ instances = {}
  /\ tokens = config.rate
  /\ releases = 0

Next ==
  \/ \E v \in config.servers : WakeUp(v) \/ Sleep(v)
  \/ DispatchChunks \/ Collect \/ Raise
  \/ \E s \in Sessions : \/ HandlePending(s) \/ HandleGenerating(s) \/ ComputeScore(s)
                         \/ HandleProcessingTools(s) \/ HandleInteracting(s)
  \/ \E c \in Calls : StartThread(c) \/ Acquire(c) \/ Execute(c) \/ AnswerCall(c)
  \/ Release

\* Threads and coroutines are not starved, engines and searches answer or time out.
Spec == Init /\ [][Next]_vars /\ WF_vars(Next)

-----------------------------------------------------------------------------
\* In the row a session ends with, after truncation and padding, the prompt holds no word
\* of the dialogue, the mask is 1 exactly at the model's own tokens and the log-probs are
\* theirs, and the score sits on the last token of the response.
OutputAligned ==
  \A s \in Sessions : session[s].state \in {"terminated", "scored"} =>
    LET row == Row(s) IN
    /\ Range(row.prompt) \subseteq {"pad", "prompt"} /\ Len(row.prompt) = PromptLength
    /\ Len(row.mask) = ResponseLength /\ Len(row.response) = ResponseLength
    /\ row.logp = <<>> <=> ~config.logprobs
    /\ \A i \in 1..ResponseLength : /\ row.mask[i] = 1 <=> row.response[i] = "gen"
                                    /\ config.logprobs => (row.mask[i] = 1 <=> row.logp[i] = "logp")
                                    /\ row.response[i] = "pad" <=> i > row.reward
    /\ row.response[1] = "gen"

\* Without an interaction no request is refused for lack of room: tool responses that
\* would fill the response end the row, however long its prompt, so a batch never fails.
RequestsFit ==
  ~config.interaction =>
    manager # "failed" /\ \A s \in Sessions : session[s].state # "error"

\* Whether searches answer or raise, every token of the limiter is free, held by one
\* search, or on its way back, and only calls that have not been answered keep an
\* instance in the tool.
ResourcesReturned ==
  /\ tokens + Cardinality(CallsIn({"executing"})) + releases = config.rate
  /\ instances = CallsIn({"queued", "acquiring", "executing", "returned"})

\* No engine sleeps under a request: a row may come back from a tool long after the other
\* workers have finished.
EnginesAwake ==
  \A s \in Sessions : session[s].state = "waiting" => session[s].server \in awake

\* With fewer tokens and pool threads than calls, the batch is answered or refused all
\* the same: no call waits for a token that is never given back.
EventuallyAnswered == <>(manager \in {"done", "failed"})

=============================================================================
