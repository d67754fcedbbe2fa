------------------------- MODULE MicrophonePipeline -------------------------
(***************************************************************************)
(* The Web Audio graph behind a published microphone,                      *)
(* web/src/audio/MicrophonePipelineProcessor.ts: source -> (RNNoise node)  *)
(* -> gain -> destination.  The node is built asynchronously, and a build  *)
(* belongs to the generation of the graph it was begun for.                *)
(*                                                                         *)
(* A processor is a record and its methods are functions of records: the   *)
(* module that owns the processor holds the record in a variable.  What a  *)
(* method does up to its first await, or from one await to the next, is    *)
(* one application.                                                        *)
(*                                                                         *)
(* An operator named X_Fault is X with a plausible mistake in it, unused.  *)
(***************************************************************************)
EXTENDS Naturals

NoGeneration == 0

\* A build of the node: of which generation, how far it has got, and for
\* which session of the owner it was reported impossible.
BuildStages == {"load", "create", "unavailable"}
Builds == [gen : Nat \ {0}, stage : BuildStages, sess : Nat]

Pipelines ==
    [option      : {"rnnoise", "system"},  \* noiseSuppression ("webrtc", "off")
     allowed     : BOOLEAN,                \* rnnoiseCaptureAllowed
     graph       : BOOLEAN,                \* the nodes around the suppressor exist
     gen         : Nat \ {0},              \* pipelineGeneration
     node        : BOOLEAN,                \* rnnoiseNode is in the graph
     promised    : Nat,                    \* suppressionNodePromise's generation
     unavailable : Nat,                    \* unavailableGeneration
     builds      : SUBSET Builds,          \* builds that have not ended
     alive       : Nat]                    \* nodes created and not destroyed

NewPipeline(option, ns) ==
    [option |-> option, allowed |-> ~ns, graph |-> FALSE, gen |-> 1, node |-> FALSE,
     promised |-> NoGeneration, unavailable |-> NoGeneration, builds |-> {}, alive |-> 0]

-----------------------------------------------------------------------------
DestroyRnnoiseNode(p) ==
    [p EXCEPT !.node = FALSE, !.alive = IF p.node THEN p.alive - 1 ELSE p.alive]

InvalidateSuppression(p) == [DestroyRnnoiseNode(p) EXCEPT !.gen = p.gen + 1]

\* The path the sound takes, as rebuildSuppressionPath last connected it.
Suppressing(p) == p.graph /\ p.option = "rnnoise" /\ p.node

EnsureSuppressionNode(p) ==
    IF \/ p.option # "rnnoise" \/ p.node \/ ~p.graph
       \/ ~p.allowed \/ p.promised = p.gen
    THEN p
    ELSE [p EXCEPT !.promised = p.gen,
                   !.builds = @ \cup {[gen |-> p.gen, stage |-> "load", sess |-> 0]}]

\* What setNoiseSuppression waits for: the generation of a build, or nothing.
Awaited(p) ==
    IF p.option = "rnnoise" /\ ~p.node /\ p.graph /\ p.allowed
    THEN p.promised ELSE NoGeneration

SetNoiseSuppression(p, option) ==
    LET q == [p EXCEPT !.option = option] IN
    IF ~p.graph THEN q
    ELSE IF option = "rnnoise" THEN EnsureSuppressionNode(q)
    ELSE InvalidateSuppression(q)

SetCaptureNoiseSuppression(p, ns) ==
    LET q == [p EXCEPT !.allowed = ~ns] IN
    IF ns THEN InvalidateSuppression(q)
    ELSE IF p.graph THEN EnsureSuppressionNode(q) ELSE q

Disconnect(p) == [InvalidateSuppression(p) EXCEPT !.graph = FALSE]

\* init and restart: the old graph goes, a new one is connected.
Connect(p) == EnsureSuppressionNode([Disconnect(p) EXCEPT !.graph = TRUE])

-----------------------------------------------------------------------------
IsCurrentGeneration(p, g) ==
    g = p.gen /\ p.option = "rnnoise" /\ p.allowed /\ p.graph

IsGenerationActive(p, g) == g = p.gen /\ p.graph

EndBuild(p, b) ==
    [p EXCEPT !.builds = @ \ {b},
              !.promised = IF @ = b.gen THEN NoGeneration ELSE @]

\* The build reports that RNNoise cannot be had, once per generation, and
\* waits for what its owner, in session s, does about it.
HandleRnnoiseUnavailable(p, b, s) ==
    IF ~IsCurrentGeneration(p, b.gen) THEN EndBuild(p, b)
    ELSE LET q == [DestroyRnnoiseNode(p) EXCEPT !.allowed = FALSE] IN
         IF p.unavailable = b.gen THEN EndBuild(q, b)
         ELSE [q EXCEPT !.unavailable = b.gen,
                        !.builds = (@ \ {b}) \cup {[b EXCEPT !.stage = "unavailable", !.sess = s]}]

\* loadRnnoiseBinary answers: ok is false when it throws, finds no binary or
\* the context does not run at 48 kHz.
Loaded(p, b, ok, s) ==
    IF ok THEN IF IsCurrentGeneration(p, b.gen)
               THEN [p EXCEPT !.builds = (@ \ {b}) \cup {[b EXCEPT !.stage = "create"]}]
               ELSE EndBuild(p, b)
    ELSE HandleRnnoiseUnavailable(p, b, s)

\* createRnnoiseNode answers; a node that comes too late is destroyed at once.
Created(p, b, ok, s) ==
    IF ~ok THEN HandleRnnoiseUnavailable(p, b, s)
    ELSE IF ~IsCurrentGeneration(p, b.gen) THEN EndBuild(p, b)
    ELSE EndBuild([DestroyRnnoiseNode(p) EXCEPT !.node = TRUE, !.alive = @ + 1], b)

=============================================================================
