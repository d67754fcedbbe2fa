------------------------------- MODULE SoundSlot -------------------------------
(***************************************************************************)
(* The settings of one notification sound: createSlot and what it queues in *)
(* web/src/application-sounds/core.ts.  A slot is filled from two stores,   *)
(* the preferences and the database of custom sounds, and every change      *)
(* writes them before the slot; the operations wait for each other in a     *)
(* queue.  A write may fail, and the page may be reloaded between two.      *)
(*                                                                         *)
(* A sound is a number: those of Playable decode to at most three seconds,  *)
(* those of Broken do not, or are no valid file.  `files' is the database's *)
(* record of the slot.                                                      *)
(***************************************************************************)
EXTENDS Naturals, Sequences, FiniteSets

CONSTANTS
    Presets,      \* system presets, numbers; the least is the default
    Playable,     \* custom sounds that can be used
    Broken,       \* and files that cannot
    MaxChanges,   \* bound: operations asked for
    MaxFailures,  \* bound: writes and reads that fail
    MaxReloads    \* bound: reloads of the page

SoundSlotAssumption ==
    /\ Presets \subseteq Nat /\ Presets # {} /\ Playable \cap Broken = {}
    /\ MaxChanges \in Nat /\ MaxFailures \in Nat /\ MaxReloads \in Nat

VARIABLES
    prefs,    \* stored preferences: preset and source ({} not set), enabled
    files,    \* the stored record, {} for none
    slot,     \* the slot and its control
    queue,    \* operations that wait
    run,      \* the one under way, the load first
    spent,    \* bounds
    excused   \* history: a failure whose repair failed too

ssVars == <<prefs, files, slot, queue, run, spent, excused>>

Sounds == Playable \cup Broken
Default == CHOOSE p \in Presets : \A q \in Presets : p <= q

Preset(p) == [kind |-> "preset", of |-> p]
Custom(s) == [kind |-> "custom", of |-> s]

Saved(pr) == IF pr.preset = {} THEN Default ELSE CHOOSE p \in pr.preset : TRUE

\* createSlot: what is known before the load.
Created(pr) ==
    [enabled |-> pr.enabled, preset |-> Saved(pr), source |-> IF pr.source = {"custom"} THEN "custom" ELSE "preset",
     selected |-> Preset(Saved(pr)), record |-> {}, decoded |-> {}, custom |-> "empty",
     hydrating |-> TRUE, pending |-> 0, phase |-> "loading"]

Operation(kind, of, at) == [kind |-> kind, of |-> of, at |-> at]
Load == Operation("load", 0, "get")

Init ==
    /\ prefs \in [preset : {{}} \cup {{p} : p \in Presets}, source : {{}, {"preset"}, {"custom"}}, enabled : {TRUE}]
    /\ files \in {{}} \cup {{s} : s \in Sounds}
    /\ slot = Created(prefs)
    /\ queue = <<>>
    /\ run = {Load}
    /\ spent = [changes |-> 0, failures |-> 0, reloads |-> 0]
    /\ excused = FALSE

TypeOK ==
    /\ slot.preset \in Presets /\ slot.record \subseteq Sounds /\ slot.decoded \subseteq Playable
    /\ slot.selected \in {Preset(p) : p \in Presets} \cup {Custom(s) : s \in Playable}
    /\ slot.custom \in {"empty", "playable", "unavailable"}
    /\ Cardinality(run) <= 1 /\ (run = {} => queue = <<>>)
    /\ slot.pending = Len(queue) + Cardinality({o \in run : o.kind # "load"})
    /\ slot.phase = IF slot.hydrating THEN "loading" ELSE IF slot.pending > 0 THEN "changing" ELSE "ready"

-----------------------------------------------------------------------------
(* The queue. *)

\* The place an operation starts at.
First(kind) == CASE kind = "upload" -> "decode" [] kind = "remove" -> "remove" [] OTHER -> "set"

Phase_IgnoresLoad(x) == [x EXCEPT !.phase = IF x.pending > 0 THEN "changing" ELSE "ready"]

Phase(x) == [x EXCEPT !.phase = IF x.hydrating THEN "loading" ELSE IF x.pending > 0 THEN "changing" ELSE "ready"]

\* The operation under way ends with the slot x; the next one begins.
Ends(x) ==
    /\ slot' = Phase(IF Load.kind \in {o.kind : o \in run} THEN [x EXCEPT !.hydrating = FALSE]
                     ELSE [x EXCEPT !.pending = @ - 1])
    /\ run' = IF queue = <<>> THEN {} ELSE {Head(queue)}
    /\ queue' = IF queue = <<>> THEN <<>> ELSE Tail(queue)

Moves(o, at) == run' = {[o EXCEPT !.at = at]} /\ UNCHANGED <<slot, queue>>

\* A step on a store that may fail.
Fails == spent.failures < MaxFailures /\ spent' = [spent EXCEPT !.failures = @ + 1]
Works == UNCHANGED spent

Enqueue ==
    \E o \in {Operation("enable", 0, "set"), Operation("custom", 0, "set"), Operation("remove", 0, "remove")}
             \cup {Operation("preset", p, "set") : p \in Presets}
             \cup {Operation("upload", s, "decode") : s \in Sounds} :
        /\ spent.changes < MaxChanges
        /\ spent' = [spent EXCEPT !.changes = @ + 1]
        /\ slot' = Phase([slot EXCEPT !.pending = @ + 1])
        /\ IF run = {} THEN run' = {o} /\ UNCHANGED queue ELSE queue' = Append(queue, o) /\ UNCHANGED run
        /\ UNCHANGED <<prefs, files, excused>>

-----------------------------------------------------------------------------
(* The load.  The saved preferences are normalized first; a refusal of that  *)
(* write leaves nothing a reload would notice, and is left out.              *)

Normalized ==
    [prefs EXCEPT !.preset = IF @ = {} THEN {slot.preset} ELSE @, !.source = IF @ = {} THEN {"preset"} ELSE @]

\* repairUnavailableCustomSelection: the preset is used, and stored if a custom
\* sound was preferred; a store that refuses is only reported.
Repaired(x) == [x EXCEPT !.selected = Preset(x.preset), !.source = "preset"]

Repair(x, pr) ==
    /\ Ends(Repaired(x))
    /\ IF x.source # "custom" THEN Works /\ prefs' = pr /\ UNCHANGED excused
       ELSE \/ Works /\ prefs' = [pr EXCEPT !.source = {"preset"}] /\ UNCHANGED excused
            \/ Fails /\ prefs' = pr /\ excused' = TRUE

\* The database answers.
Got ==
    \E o \in run :
        /\ o.kind = "load" /\ o.at = "get"
        /\ IF files = {} THEN Repair([slot EXCEPT !.custom = "empty"], Normalized)
           ELSE /\ Works
                /\ prefs' = Normalized
                /\ run' = {[o EXCEPT !.at = "decode"]}
                /\ slot' = [slot EXCEPT !.record = files]
                /\ UNCHANGED <<queue, excused>>
        /\ UNCHANGED files

\* It does not: the slot forgets that there is a record.
Unreadable ==
    \E o \in run :
        /\ o.kind = "load" /\ o.at = "get"
        /\ Fails
        /\ Ends(Repaired([slot EXCEPT !.custom = "unavailable"]))
        /\ prefs' = IF slot.source = "custom" THEN [Normalized EXCEPT !.source = {"preset"}] ELSE Normalized
        /\ excused' = TRUE
        /\ UNCHANGED files

LoadDecoded ==
    \E o \in run :
        /\ o.kind = "load" /\ o.at = "decode"
        /\ IF slot.record \subseteq Playable
           THEN /\ Ends([slot EXCEPT !.decoded = slot.record, !.custom = "playable",
                                     !.selected = IF slot.source = "custom"
                                                  THEN Custom(CHOOSE s \in slot.record : TRUE) ELSE Preset(slot.preset)])
                /\ Works /\ UNCHANGED <<prefs, excused>>
           ELSE Repair([slot EXCEPT !.custom = "unavailable"], prefs)
        /\ UNCHANGED files

-----------------------------------------------------------------------------
(* The operations. *)

SetEnabled ==
    \E o \in run :
        /\ o.kind = "enable"
        /\ \/ /\ Works
              /\ prefs' = [prefs EXCEPT !.enabled = ~slot.enabled]
              /\ Ends([slot EXCEPT !.enabled = ~@])
           \/ Fails /\ Ends(slot) /\ UNCHANGED prefs
        /\ UNCHANGED <<files, excused>>

SelectCustom ==
    \E o \in run :
        /\ o.kind = "custom"
        /\ IF slot.decoded = {} \/ slot.custom # "playable" THEN Works /\ Ends(slot) /\ UNCHANGED prefs
           ELSE \/ /\ Works
                   /\ prefs' = [prefs EXCEPT !.source = {"custom"}]
                   /\ Ends([slot EXCEPT !.source = "custom", !.selected = Custom(CHOOSE s \in slot.decoded : TRUE)])
                \/ Fails /\ Ends(slot) /\ UNCHANGED prefs
        /\ UNCHANGED <<files, excused>>

\* Two preferences; when the second is refused the first is put back, which
\* may be refused as well.
SelectPreset ==
    \E o \in run :
        /\ o.kind = "preset"
        /\ \/ /\ Works
              /\ prefs' = [prefs EXCEPT !.preset = {o.of}, !.source = {"preset"}]
              /\ Ends([slot EXCEPT !.preset = o.of, !.source = "preset", !.selected = Preset(o.of)])
              /\ UNCHANGED excused
           \/ Fails /\ Ends(slot) /\ UNCHANGED <<prefs, excused>>
           \/ Fails /\ Ends(slot) /\ prefs' = [prefs EXCEPT !.preset = {o.of}] /\ excused' = TRUE
        /\ UNCHANGED files

\* The file is checked and decoded.
UploadDecoded ==
    \E o \in run :
        /\ o.kind = "upload" /\ o.at = "decode"
        /\ IF o.of \in Playable THEN Moves(o, "put") ELSE Ends(slot)
        /\ UNCHANGED <<prefs, files, spent, excused>>

UploadStored ==
    \E o \in run :
        /\ o.kind = "upload" /\ o.at = "put"
        /\ \/ files' = {o.of} /\ Works /\ Moves(o, "set")
           \/ files' = files /\ Fails /\ Moves(o, "restore")
        /\ UNCHANGED <<prefs, excused>>

UploadSelected ==
    \E o \in run :
        /\ o.kind = "upload" /\ o.at = "set"
        /\ \/ /\ Works
              /\ prefs' = [prefs EXCEPT !.source = {"custom"}]
              /\ Ends([slot EXCEPT !.record = {o.of}, !.decoded = {o.of}, !.custom = "playable",
                                   !.source = "custom", !.selected = Custom(o.of)])
           \/ Fails /\ Moves(o, "restore") /\ UNCHANGED prefs
        /\ UNCHANGED <<files, excused>>

RecordRemoved ==
    \E o \in run :
        /\ o.kind = "remove" /\ o.at = "remove"
        /\ \/ files' = {} /\ Works /\ Moves(o, "set")
           \/ files' = files /\ Fails /\ Moves(o, "restore")
        /\ UNCHANGED <<prefs, excused>>

RemovalSelected ==
    \E o \in run :
        /\ o.kind = "remove" /\ o.at = "set"
        /\ \/ /\ Works
              /\ prefs' = [prefs EXCEPT !.source = {"preset"}]
              /\ Ends([slot EXCEPT !.record = {}, !.decoded = {}, !.custom = "empty",
                                   !.source = "preset", !.selected = Preset(slot.preset)])
           \/ Fails /\ Moves(o, "restore") /\ UNCHANGED prefs
        /\ UNCHANGED <<files, excused>>

\* restoreCustomRecord: the record the slot knew is written back.
Restored_Keeps == files' = files
Restored == files' = slot.record

RestoreRecord ==
    \E o \in run :
        /\ o.at = "restore"
        /\ \/ Works /\ Restored /\ UNCHANGED excused
           \/ Fails /\ UNCHANGED files /\ excused' = TRUE
        /\ Ends(slot)
        /\ UNCHANGED prefs

Reload ==
    /\ spent.reloads < MaxReloads
    /\ spent' = [spent EXCEPT !.reloads = @ + 1]
    /\ slot' = Created(prefs) /\ queue' = <<>> /\ run' = {Load}
    /\ excused' = FALSE
    /\ UNCHANGED <<prefs, files>>

Next ==
    \/ Enqueue \/ Got \/ Unreadable \/ LoadDecoded \/ SetEnabled \/ SelectCustom \/ SelectPreset
    \/ UploadDecoded \/ UploadStored \/ UploadSelected \/ RecordRemoved \/ RemovalSelected
    \/ RestoreRecord \/ Reload

Spec == Init /\ [][Next]_ssVars

-----------------------------------------------------------------------------
(* Properties. *)

\* What a reload would select from the stores.
Reloaded ==
    IF prefs.source = {"custom"} /\ files # {} /\ files \subseteq Playable
    THEN Custom(CHOOSE s \in files : TRUE) ELSE Preset(Saved(prefs))

\* When nothing is under way, the slot plays and offers what a reload of the
\* page would bring back, whichever single store refused a write on the way and
\* wherever an earlier page was closed, unless a repair failed too or the
\* database could not be read (core.ts:423-624).
SlotIsStored ==
    run = {} /\ ~excused =>
        /\ slot.selected = Reloaded /\ slot.enabled = prefs.enabled
        /\ slot.record = files /\ (slot.custom = "playable" <=> files # {} /\ files \subseteq Playable)
=============================================================================
