---------------------------- MODULE NodeInference ----------------------------
(***************************************************************************)
(* The inference handlers of a provider node, unary and streamed, one per  *)
(* libp2p stream: the request is read, the allowlist asked, the backend    *)
(* runs it whether or not the peer is still there, and the node publishes  *)
(* how many handlers it runs and the figures of those that answered.       *)
(***************************************************************************)
EXTENDS Integers, FiniteSets, Functions

CONSTANTS
    StreamIds,      \* libp2p streams
    Streamed,       \* those of the streaming protocol
    Gateways,       \* peers that open streams
    AllowedGateways, \* node.allowed_gateway_peers; empty means all
    MaxChunks       \* bound: chunks an answer has before its last

ASSUME GatewaysAssumption == Gateways # {}
ASSUME StreamsAssumption == Streamed \subseteq StreamIds
ASSUME ChunksAssumption == MaxChunks \in Nat

VARIABLES
    handlers,   \* stream -> its handler: place, peer, what it has sent
    inflight,   \* inflightInference
    figures,    \* the moving averages that have a sample: latency, ttft, decode
    load,       \* the load in the last health update
    answered,   \* streams whose backend answered in full, at least one chunk
    lost        \* streams that were reset or whose connection broke

nodeVars == <<handlers, inflight, figures, load, answered, lost>>

Handler == [at : {"idle", "read", "backend", "chunks", "finish", "ended"},
            peer : Gateways, chunks : 0..MaxChunks + 1,
            last : {"none", "ok", "error"}, sample : BOOLEAN]
Running(s) == handlers[s].at \notin {"idle", "ended"}

(***************************************************************************)
(* The in-flight count is the number of handlers that run, on every path   *)
(* out of them.                                                            *)
(***************************************************************************)
NodeTypeOK ==
    /\ handlers \in [StreamIds -> Handler]
    /\ inflight = Cardinality({s \in StreamIds : Running(s)})
    /\ figures \in SUBSET {"latency", "ttft", "decode"}
    /\ load \in Nat
    /\ answered \in SUBSET StreamIds
    /\ lost \in SUBSET StreamIds

IdleHandler == [at |-> "idle", peer |-> CHOOSE p \in Gateways : TRUE,
                chunks |-> 0, last |-> "none", sample |-> FALSE]

NodeInit ==
    /\ handlers = [s \in StreamIds |-> IdleHandler]
    /\ inflight = 0
    /\ figures = {}
    /\ load = 0
    /\ answered = {}
    /\ lost = {}

Serves(s, place) == handlers[s].at = place

\* A stream is lost when writing to it fails; a last message then does not arrive.
SendLast(s, place, message) ==
    handlers' = [handlers EXCEPT ![s].at = place,
                                 ![s].last = IF s \in lost THEN @ ELSE message]

\* recordInferenceSample: a stream reports no tokens, a unary answer may.
Sampled(s, tokens) ==
    {"latency", "ttft"} \union IF s \in Streamed \/ tokens = 0 THEN {} ELSE {"decode"}

-----------------------------------------------------------------------------
\* SetStreamHandler: counted before anything is read.
markInferenceStarted(s) ==
    /\ Serves(s, "idle")
    /\ \E p \in Gateways :
           handlers' = [handlers EXCEPT ![s].at = "read", ![s].peer = p]
    /\ inflight' = inflight + 1
    /\ UNCHANGED <<figures, load, answered, lost>>

\* A request that cannot be read is answered; so is one that the connection cut off.
RequestUnreadable(s) ==
    /\ Serves(s, "read")
    /\ SendLast(s, "finish", "error")
    /\ UNCHANGED <<inflight, figures, load, answered, lost>>

isAllowedInferencePeer(p) == AllowedGateways = {} \/ p \in AllowedGateways

\* Mutant: the allowlist's answer is dropped silently.
RefusePeerSilently(s) ==
    /\ Serves(s, "read")
    /\ ~isAllowedInferencePeer(handlers[s].peer)
    /\ handlers' = [handlers EXCEPT ![s].at = "finish"]
    /\ UNCHANGED <<inflight, figures, load, answered, lost>>

RefusePeer(s) ==
    /\ Serves(s, "read")
    /\ ~isAllowedInferencePeer(handlers[s].peer)
    /\ SendLast(s, "finish", "error")
    /\ UNCHANGED <<inflight, figures, load, answered, lost>>

CallBackend(s) ==
    /\ Serves(s, "read")
    /\ isAllowedInferencePeer(handlers[s].peer)
    /\ handlers' = [handlers EXCEPT ![s].at = "backend"]
    /\ UNCHANGED <<inflight, figures, load, answered, lost>>

\* The request is malformed, or the backend refuses it or times out.
BackendFails(s) ==
    /\ Serves(s, "backend")
    /\ SendLast(s, "finish", "error")
    /\ UNCHANGED <<inflight, figures, load, answered, lost>>

-----------------------------------------------------------------------------
\* A unary answer: recorded first, then sent, and a failed write is only logged.
BackendAnswers(s) ==
    /\ Serves(s, "backend") /\ s \notin Streamed
    /\ \E tokens \in {0, 1} : figures' = figures \union Sampled(s, tokens)
    /\ answered' = answered \union {s}
    /\ SendLast(s, "finish", "ok")
    /\ UNCHANGED <<inflight, load, lost>>

BackendStarts(s) ==
    /\ Serves(s, "backend") /\ s \in Streamed
    /\ handlers' = [handlers EXCEPT ![s].at = "chunks"]
    /\ UNCHANGED <<inflight, figures, load, answered, lost>>

\* A chunk that cannot be written ends the handler.
ForwardChunk(s) ==
    /\ Serves(s, "chunks") /\ handlers[s].chunks < MaxChunks
    /\ handlers' = [handlers EXCEPT ![s].chunks = @ + 1,
                                    ![s].at = IF s \in lost THEN "finish" ELSE @]
    /\ UNCHANGED <<inflight, figures, load, answered, lost>>

ForwardDone(s) ==
    /\ Serves(s, "chunks")
    /\ IF s \in lost
       THEN SendLast(s, "finish", "ok") /\ UNCHANGED answered
       ELSE /\ handlers' = [handlers EXCEPT ![s].at = "finish", ![s].last = "ok",
                                ![s].chunks = @ + 1, ![s].sample = TRUE]
            /\ answered' = answered \union {s}
    /\ UNCHANGED <<inflight, figures, load, lost>>

\* The body ends without a chunk that says done: answered ok, whatever came before.
BackendEnds(s) ==
    /\ Serves(s, "chunks")
    /\ handlers' = [handlers EXCEPT ![s].at = "finish",
                        ![s].sample = handlers[s].chunks > 0,
                        ![s].last = IF s \in lost THEN @ ELSE "ok"]
    /\ answered' = IF handlers[s].chunks > 0 THEN answered \union {s} ELSE answered
    /\ UNCHANGED <<inflight, figures, load, lost>>

BackendBreaks(s) ==
    /\ Serves(s, "chunks")
    /\ SendLast(s, "finish", "error")
    /\ UNCHANGED <<inflight, figures, load, answered, lost>>

\* Mutant: the count is only taken back when the handler has a sample.
markInferenceFinishedSampled(s) ==
    /\ Serves(s, "finish")
    /\ handlers' = [handlers EXCEPT ![s].at = "ended"]
    /\ inflight' = IF handlers[s].sample THEN inflight - 1 ELSE inflight
    /\ figures' = IF handlers[s].sample THEN figures \union Sampled(s, 0) ELSE figures
    /\ UNCHANGED <<load, answered, lost>>

\* The deferred functions: a stream's sample, and the count.
markInferenceFinished(s) ==
    /\ Serves(s, "finish")
    /\ handlers' = [handlers EXCEPT ![s].at = "ended"]
    /\ inflight' = inflight - 1
    /\ figures' = IF handlers[s].sample THEN figures \union Sampled(s, 0) ELSE figures
    /\ UNCHANGED <<load, answered, lost>>

-----------------------------------------------------------------------------
\* The peer resets the stream or its connection breaks.
ConnectionLost(s) ==
    /\ Running(s) /\ s \notin lost
    /\ lost' = lost \union {s}
    /\ UNCHANGED <<handlers, inflight, figures, load, answered>>

\* healthSnapshot, published with every heartbeat.
PublishHealth ==
    /\ load' = inflight
    /\ UNCHANGED <<handlers, inflight, figures, answered, lost>>

ServeUnary(s) == BackendAnswers(s)
ServeStream(s) ==
    BackendStarts(s) \/ ForwardChunk(s) \/ ForwardDone(s) \/ BackendEnds(s) \/ BackendBreaks(s)
Serve(s) ==
    RequestUnreadable(s) \/ RefusePeer(s) \/ CallBackend(s) \/ BackendFails(s)
        \/ ServeUnary(s) \/ ServeStream(s) \/ markInferenceFinished(s)

NodeNext ==
    \/ \E s \in StreamIds : markInferenceStarted(s) \/ Serve(s) \/ ConnectionLost(s)
    \/ PublishHealth
NodeSpec == NodeInit /\ [][NodeNext]_nodeVars

\* Peers send what they opened a stream for, or the connection breaks; backends end.
NodeFairness ==
    /\ \A s \in StreamIds : WF_nodeVars(Serve(s))
    /\ WF_nodeVars(PublishHealth)

-----------------------------------------------------------------------------
(***************************************************************************)
(* On every path out of a handler, a gateway that still reads the stream   *)
(* gets a last message, an answer or an error: without one it sees the end *)
(* of the stream, which after a first chunk it takes for a whole answer.   *)
(***************************************************************************)
EveryStreamIsTerminated ==
    \A s \in StreamIds :
        handlers[s].at \in {"finish", "ended"} /\ s \notin lost => handlers[s].last # "none"

(***************************************************************************)
(* A node advertises latency figures only from answers: a request that was *)
(* refused, failed or came back empty leaves none, and the decode rate     *)
(* comes from unary answers.                                               *)
(***************************************************************************)
FiguresAreEarned ==
    /\ figures # {} => answered # {} /\ {"latency", "ttft"} \subseteq figures
    /\ "decode" \in figures => \E s \in answered : s \notin Streamed

(***************************************************************************)
(* Once no handler runs, the load that others route by comes down to zero. *)
(***************************************************************************)
IdleLoadIsPublished ==
    (\A s \in StreamIds : ~Running(s)) ~> load = 0 \/ \E s \in StreamIds : Running(s)

=============================================================================
