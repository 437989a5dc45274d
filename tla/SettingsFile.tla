---- MODULE SettingsFile ----
(* UFGU.ini and the copy of it that Settings keeps in memory (config/Settings.cpp).
   Three writers share the file: the plugin's own menu and its live provider switch, which
   write one key at a time, and an editor or mod manager outside the process.  A save the
   plugin has not read is known only by the file's time, `unseen`.

   Keys: the pair provider and mode, `option` for any other key that is read again while
   the game runs, and `vendor`, which the first load latches for the whole process. *)
EXTENDS Naturals, Sequences

CONSTANTS MaxEdits, MaxRefusals, MaxOperations

ASSUME SettingsBounds == MaxEdits \in Nat /\ MaxRefusals \in Nat /\ MaxOperations \in Nat

VARIABLES ini,     \* the file: present, text (what each key says), unseen
          memory,  \* loaded, value (what the getters answer)
          io,      \* the writes a menu or a switch has yet to make
          ghost,   \* what the file holds that the memory does not: apart, the keys whose
                   \* difference was marked as read; unread, those saved or left by a
                   \* refused undo since the last read
          left     \* edits, operations and refused operations that may still happen

settingsVars == <<ini, memory, io, ghost, left>>

----
(* Reading *)

Known == [provider |-> {"nvidia", "amd"}, mode |-> {"off", "quality"},
          option |-> {"standard", "other"}, vendor |-> {"off", "amd"}]
Default == [provider |-> "nvidia", mode |-> "off", option |-> "standard", vendor |-> "off"]

Keys == DOMAIN Known
LiveKeys == Keys \ {"vendor"}
Pair(values) == <<values.provider, values.mode>>

\* Some values have a second name, and a number out of its range is moved to the end of it;
\* `option` stands for keys of both kinds.
Alias == [standardfinite |-> "standard"]
Clamped == [beyond |-> "other"]
Spelled(key) == IF key = "option" THEN DOMAIN Alias \cup DOMAIN Clamped ELSE {}

\* A text that is in no table is replaced by the default, and only logged.
ReadKey(key, text) ==
    CASE text \in Known[key] -> text
      [] text \in Spelled(key) \cap DOMAIN Alias -> Alias[text]
      [] text \in Spelled(key) \cap DOMAIN Clamped -> Clamped[text]
      [] OTHER -> Default[key]

Absent == [present |-> FALSE, text |-> Default, unseen |-> FALSE]
Unloaded == [loaded |-> FALSE, value |-> Default]
Idle == [kind |-> "idle", queue |-> << >>, to |-> Default, before |-> Default,
         raw |-> Pair(Default), torn |-> FALSE]

\* The launch-latched key keeps the value of the first load.
Values(text) ==
    [k \in Keys |-> IF k \notin LiveKeys /\ memory.loaded
                    THEN memory.value[k] ELSE ReadKey(k, text[k])]

\* load: the values, then the file's time.  A save that falls between the two is marked as
\* read though its value was not.
Load(racing) ==
    IF ~ini.present THEN UNCHANGED <<ini, memory, ghost>>
    ELSE /\ memory' = [loaded |-> TRUE, value |-> Values(ini.text)]
         /\ ini' = [ini EXCEPT !.unseen = FALSE,
                               !.text = [k \in Keys |-> IF k \in DOMAIN racing
                                                        THEN racing[k] ELSE @[k]]]
         /\ ghost' = [apart |-> DOMAIN racing, unread |-> {}]

NoSave == [k \in {} |-> Default[k]]

\* reload_if_changed: nothing is read while the file's time is the one last seen.
ReloadIfChanged(racing) ==
    /\ io.kind = "idle"
    /\ ini.present /\ ini.unseen
    /\ Load(racing)
    /\ UNCHANGED io

\* A save from outside the process, of one key, at any time.
Save(key, text) ==
    /\ ini' = [ini EXCEPT !.present = TRUE, !.text[key] = text, !.unseen = TRUE]
    /\ ghost' = [ghost EXCEPT !.unread = @ \cup ({key} \cap LiveKeys)]
    /\ io' = IF io.kind = "idle" THEN io ELSE [io EXCEPT !.torn = TRUE]

----
(* Writing *)

Write(key, value, style) == [key |-> key, value |-> value, style |-> style]

\* The two writes of a pair; a "raw" write leaves the memory alone.
PairWrites(p, m, style) == <<Write("provider", p, style), Write("mode", m, style)>>
OptionWrite(o) == Write("option", o, "set")

\* What a setter that returns TRUE leaves behind: the file, the memory and the file's time,
\* which also hides a save it has not read.
AfterSet(w) ==
    /\ ini' = [ini EXCEPT !.present = TRUE, !.text[w.key] = w.value, !.unseen = FALSE]
    /\ memory' = [memory EXCEPT !.value[w.key] = w.value]
    /\ ghost' = [apart |-> (ghost.apart \cup ghost.unread) \ {w.key}, unread |-> {}]

AfterRaw(w) ==
    /\ ini' = [ini EXCEPT !.text[w.key] = w.value, !.unseen = TRUE]
    /\ UNCHANGED <<memory, ghost>>

\* The setters of single options answer from the memory without touching the file; those
\* of the provider and of the mode always write.
Needless(w) == w.style = "set" /\ w.key = "option" /\ memory.value[w.key] = w.value

Popped == [io EXCEPT !.queue = Tail(@)]

PassWrite ==
    /\ io.queue # << >>
    /\ IF Needless(Head(io.queue)) THEN UNCHANGED <<ini, memory, ghost>>
       ELSE IF Head(io.queue).style = "set" THEN AfterSet(Head(io.queue))
       ELSE AfterRaw(Head(io.queue))
    /\ io' = Popped
    /\ UNCHANGED left

\* A save of the key just written, before the file's time is read, is hidden by it.
RacedWrite(key, text) ==
    /\ io.queue # << >>
    /\ Head(io.queue).key = key
    /\ Head(io.queue).style = "set" /\ ~Needless(Head(io.queue))
    /\ left.edits > 0
    /\ text # Head(io.queue).value
    /\ ini' = [ini EXCEPT !.present = TRUE, !.text[key] = text, !.unseen = FALSE]
    /\ memory' = [memory EXCEPT !.value[key] = Head(io.queue).value]
    /\ ghost' = [apart |-> ghost.apart \cup ghost.unread \cup {key}, unread |-> {}]
    /\ io' = [Popped EXCEPT !.torn = TRUE]
    /\ left' = [left EXCEPT !.edits = @ - 1]

----
(* What follows a refused write *)

\* Apply and the restart staging put every earlier value back, one setter at a time.
RestoreEverything(before) ==
    [io EXCEPT !.kind = "restore",
               !.queue = Append(PairWrites(before.provider, before.mode, "set"),
                                OptionWrite(before.option))]

\* stage_upscaling_for_restart(previous...), the first step of undoing a failed staging.
StagePrevious(before) ==
    [io EXCEPT !.kind = "restage", !.queue = PairWrites(before.provider, before.mode, "raw")]

\* A staging whose mode was refused writes the pair in memory back.
Unstage(then) ==
    [io EXCEPT !.kind = then,
               !.queue = PairWrites(memory.value.provider, memory.value.mode, "raw")]

\* A commit that failed writes back what the file said before, word for word.
RestorePhysical ==
    [io EXCEPT !.kind = "rollback", !.queue = PairWrites(io.raw[1], io.raw[2], "raw")]

\* The last write of a commit or a staging is the mode's.
AtMode == Len(io.queue) = 1

\* The half-written pair is left in the file.
AfterRefusalKept == IF io.kind = "restore" THEN Popped ELSE Idle

AfterRefusal ==
    CASE io.kind = "apply" -> RestoreEverything(io.before)
      [] io.kind = "commit" -> IF AtMode THEN RestorePhysical ELSE Idle
      [] io.kind = "stage" -> IF AtMode THEN Unstage("unstage") ELSE StagePrevious(io.before)
      [] io.kind = "restage" -> IF AtMode THEN Unstage("unrestage")
                                ELSE RestoreEverything(io.before)
      [] OTHER -> Popped    \* the writes of an undo do not depend on one another

Undoing == {"restore", "unstage", "unrestage", "rollback"}

\* Only the first refusal of an operation is counted: what refused it may refuse its undo.
Refused == io.kind \in Undoing \cup {"restage"}

RefuseWrite ==
    /\ Refused \/ left.refusals > 0
    /\ io.queue # << >>
    /\ ~Needless(Head(io.queue))
    /\ IF io.kind \in Undoing
       THEN /\ io' = [AfterRefusal EXCEPT !.torn = TRUE]
            /\ ghost' = [ghost EXCEPT !.unread = @ \cup {Head(io.queue).key}]
       ELSE io' = AfterRefusal /\ UNCHANGED ghost
    /\ left' = IF Refused THEN left ELSE [left EXCEPT !.refusals = @ - 1]
    /\ UNCHANGED <<ini, memory>>

----
(* The end of a sequence of writes *)

Drained(kind) == io.kind = kind /\ io.queue = << >>

\* The file's time is read, so that the plugin does not read back its own write.
Absorb(apart) ==
    /\ ini' = [ini EXCEPT !.unseen = FALSE]
    /\ ghost' = [apart |-> apart, unread |-> {}]

FinishApply ==
    /\ \/ Drained("apply")
       \/ Drained("restore")
       \/ Drained("rollback")
    /\ io' = Idle
    /\ UNCHANGED <<ini, memory, ghost, left>>

\* The last write is through, and then the bridge refuses to be reconfigured.
FailApply ==
    /\ Drained("apply")
    /\ left.refusals > 0
    /\ io' = RestoreEverything(io.before)
    /\ left' = [left EXCEPT !.refusals = @ - 1]
    /\ UNCHANGED <<ini, memory, ghost>>

FinishUnstage ==
    /\ \/ Drained("unstage") /\ io' = StagePrevious(io.before)
       \/ Drained("unrestage") /\ io' = RestoreEverything(io.before)
    /\ UNCHANGED <<ini, memory, ghost, left>>

FinishStage ==
    /\ Drained("stage") \/ Drained("restage")
    /\ Absorb(ghost.apart \cup ghost.unread \cup {"provider", "mode"})
    /\ io' = IF io.kind = "stage" THEN Idle ELSE RestoreEverything(io.before)
    /\ UNCHANGED <<memory, left>>

\* A commit that trusts its writes.
CommitUnread ==
    /\ Drained("commit")
    /\ memory' = [memory EXCEPT !.value.provider = io.to.provider, !.value.mode = io.to.mode]
    /\ Absorb((ghost.apart \cup ghost.unread) \ {"provider", "mode"})
    /\ io' = Idle
    /\ UNCHANGED left

\* verify_profile_commit: the file is flushed, read back and compared with the request.
VerifyCommit ==
    /\ Drained("commit")
    /\ Pair(ini.text) = Pair(io.to)
    /\ memory' = [memory EXCEPT !.value.provider = io.to.provider, !.value.mode = io.to.mode]
    /\ Absorb((ghost.apart \cup ghost.unread) \ {"provider", "mode"})
    /\ io' = Idle
    /\ UNCHANGED left

\* The pair is saved after the comparison, before the file's time is read.
RacedCommit(key, text) ==
    /\ Drained("commit")
    /\ key \in {"provider", "mode"}
    /\ Pair(ini.text) = Pair(io.to)
    /\ left.edits > 0
    /\ text # io.to[key]
    /\ ini' = [ini EXCEPT !.text[key] = text, !.unseen = FALSE]
    /\ memory' = [memory EXCEPT !.value.provider = io.to.provider, !.value.mode = io.to.mode]
    /\ ghost' = [apart |-> ((ghost.apart \cup ghost.unread) \ {"provider", "mode"})
                              \cup {key},
                 unread |-> {}]
    /\ io' = [Idle EXCEPT !.torn = TRUE]
    /\ left' = [left EXCEPT !.edits = @ - 1]

\* The comparison differs, or the flush or the read fails.  The file's time is not read:
\* the next poll reads the pair again, whatever the undo achieved.
FailCommit ==
    /\ Drained("commit")
    /\ \/ Pair(ini.text) # Pair(io.to) /\ UNCHANGED left
       \/ left.refusals > 0 /\ left' = [left EXCEPT !.refusals = @ - 1]
    /\ io' = RestorePhysical
    /\ UNCHANGED <<ini, memory, ghost>>

\* Starting a sequence of writes: kind, the requested values, its queue.
Begin(kind, to, queue) ==
    /\ left.operations > 0
    /\ io.kind = "idle"
    /\ left' = [left EXCEPT !.operations = @ - 1]
    /\ io' = [kind |-> kind, queue |-> queue, to |-> to, before |-> memory.value,
              raw |-> Pair(ini.text), torn |-> FALSE]
    /\ UNCHANGED <<ini, memory, ghost>>

\* Any pair, and the option changed: a request that changes nothing writes only the pair.
Requests == {to \in [provider : Known.provider, mode : Known.mode, option : Known.option] :
                to.option # memory.value.option}

\* persist_everything of the menu's Apply.
BeginApply == \E to \in Requests :
    Begin("apply", [Default EXCEPT !.provider = to.provider, !.mode = to.mode,
                                   !.option = to.option],
          Append(PairWrites(to.provider, to.mode, "set"), OptionWrite(to.option)))

\* stage_restart_selection: the other options are kept now, the pair for the next launch.
\* Another provider is asked for, or a mode of the same one that has another extent or
\* that the preflight refused.
BeginStage == \E to \in Requests :
    Begin("stage", [Default EXCEPT !.provider = to.provider, !.mode = to.mode,
                                   !.option = to.option],
          <<OptionWrite(to.option)>> \o PairWrites(to.provider, to.mode, "raw"))

\* commit_upscaling_selection, at the end of a live provider switch.
BeginCommit == \E to \in Requests :
    /\ to.provider # memory.value.provider
    /\ Begin("commit", [Default EXCEPT !.provider = to.provider, !.mode = to.mode],
             PairWrites(to.provider, to.mode, "raw"))

MenuWrites == BeginApply \/ BeginStage \/ BeginCommit
WriteStep == \/ PassWrite \/ RefuseWrite
             \/ FinishApply \/ FailApply \/ FinishUnstage \/ FinishStage
             \/ VerifyCommit \/ FailCommit

\* What an editor may leave for a key; "junk", a text in no table, stands for a misspelling.
Texts(key) ==
    Known[key] \cup Spelled(key) \cup (IF key = "provider" THEN {"junk"} ELSE {})

Edit == \E key \in Keys : \E text \in Texts(key) :
    /\ left.edits > 0
    /\ text # ini.text[key]
    /\ Save(key, text)
    /\ left' = [left EXCEPT !.edits = @ - 1]
    /\ UNCHANGED memory

\* A save that falls between a write of the plugin's and its reading of the file's time.
RacingSave ==
    \E key \in LiveKeys : \E text \in Known[key] :
        RacedWrite(key, text) \/ RacedCommit(key, text)

SettingsInit ==
    /\ ini \in {Absent} \cup {[present |-> TRUE, text |-> t, unseen |-> FALSE] :
                                t \in {Default, [Default EXCEPT !.provider = "junk",
                                                                  !.vendor = "amd"]}}
    /\ memory = Unloaded
    /\ io = Idle
    /\ ghost = [apart |-> {}, unread |-> {}]
    /\ left = [edits |-> MaxEdits, refusals |-> MaxRefusals, operations |-> MaxOperations]

====
