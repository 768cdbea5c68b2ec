------------------------------- MODULE Forwarder -------------------------------
(***************************************************************************)
(* cmd/log-forwarder: the Follower tails one source file, hands each line  *)
(* to the delivery callback, and saves a checkpoint (inode and offset)     *)
(* after each line.  Around it: the application that writes the file, the  *)
(* log rotation that renames, recreates or truncates it, crashes of the    *)
(* process and losses of power.                                            *)
(*                                                                         *)
(* A file is a sequence of units.  A line is two units, the second ends    *)
(* with the newline, so a reader can see half a line.                      *)
(***************************************************************************)
EXTENDS ForwarderConfig, Sequences, FiniteSets, SequencesExt

CONSTANTS NoFile,        \* nothing at the source path, or no open file
          Torn,          \* a checkpoint file that does not parse
          LineKinds,     \* the kinds of the lines the application writes, in order
          Settings,      \* [raw, gentle]: a config file, and how files are rotated (see Rename)
          BufUnits,      \* size of the read buffer (64 KiB) in units
          MaxMishaps,    \* bound: rotations, truncations, crashes and losses of power
          MaxRotations,  \* bound: the rotations among them
          MaxTruncations \* bound: the truncations among them

Lines  == DOMAIN LineKinds
Inodes == 1..(MaxRotations + 1)
Units  == [line : Lines, nl : BOOLEAN]
Fates  == {"stored", "dead", "dropped", "erased"}

ASSUME ForwarderAssumption ==
    /\ NoFile \notin Inodes
    /\ LineKinds \in Seq(Kinds)
    /\ {MaxMishaps, MaxRotations, MaxTruncations} \subseteq Nat
    /\ BufUnits \in Nat \ {0}
    /\ \A s \in Settings : s.gentle \in BOOLEAN

VARIABLES
    config,      \* the configuration in force
    gentle,      \* whether files are rotated gently
    content,     \* inode -> units written to it
    path,        \* inode at source_file
    writer,      \* inode the application has open
    line, half,  \* line it writes next; whether its first half is written
    rotations, truncations, crashes,
    checkpoint,  \* the checkpoint file
    durable,     \* the checkpoint file that is left when the power goes
    pc,          \* where the forwarder process is
    ctxDone,     \* it was interrupted: its context is cancelled
    file,        \* inode of Follower.file
    readOffset, committedOffset, pending,
    cur,         \* the line handed to the callback
    handled,     \* history: line -> times the callback returned nil for it
    fate,        \* history: line -> what became of it
    torn         \* history: a line was handed over that nobody wrote

setting  == <<config, gentle>>
world    == <<setting, content, path, writer, line, half, rotations, truncations>>
follower == <<file, readOffset, committedOffset, pending>>
history  == <<handled, fate, torn>>
vars     == <<world, crashes, checkpoint, durable, pc, ctxDone, follower, cur, history>>

NoCheckpoint == [inode |-> NoFile, offset |-> 0]

Mishaps == rotations + truncations + crashes

Init == /\ \E s \in Settings : /\ config = applyDefaults(s.raw) /\ Accepted(config, TRUE)
                                /\ gentle = s.gentle
        /\ content = [i \in Inodes |-> <<>>]
        /\ path = 1 /\ writer = 1
        /\ line = 1 /\ half = FALSE
        /\ rotations = 0 /\ truncations = 0 /\ crashes = 0
        /\ checkpoint = NoCheckpoint /\ durable = NoCheckpoint
        /\ pc = "down" /\ ctxDone = FALSE
        /\ file = NoFile /\ readOffset = 0 /\ committedOffset = 0 /\ pending = <<>>
        /\ cur = <<>>
        /\ handled = [l \in Lines |-> 0]
        /\ fate = [l \in Lines |-> {}]
        /\ torn = FALSE

-----------------------------------------------------------------------------
(* The world of the source file *)

forwarder == <<setting, crashes, checkpoint, durable, pc, ctxDone, follower, cur, history>>

Put(nl) == content' = [content EXCEPT ![writer] = Append(@, [line |-> line, nl |-> nl])]

WriteFirstHalf ==
    /\ line \in Lines /\ ~half
    /\ Put(FALSE)
    /\ half' = TRUE
    /\ UNCHANGED <<path, writer, line, rotations, truncations, forwarder>>

WriteSecondHalf ==
    /\ half
    /\ Put(TRUE)
    /\ half' = FALSE /\ line' = line + 1
    /\ UNCHANGED <<path, writer, rotations, truncations, forwarder>>

\* logrotate renames the file; the application keeps writing to the old one.
\* A gentle rotation waits until the forwarder follows the current file, is not
\* being stopped, and the application is between two lines; and where rotations
\* are gentle the forwarder is not stopped before it has switched files.
Rename ==
    /\ rotations < MaxRotations /\ Mishaps < MaxMishaps /\ path # NoFile
    /\ gentle => pc # "down" /\ file = path /\ ~ctxDone /\ ~half
    /\ path' = NoFile
    /\ rotations' = rotations + 1
    /\ UNCHANGED <<content, writer, line, half, truncations, forwarder>>

\* The new file appears; gently, the application switches to it at once.
Create ==
    /\ path = NoFile
    /\ gentle => ~half
    /\ path' = rotations + 1
    /\ writer' = IF gentle THEN rotations + 1 ELSE writer
    /\ UNCHANGED <<content, line, half, rotations, truncations, forwarder>>

\* The application reopens its log, between two lines.
Reopen ==
    /\ path # NoFile /\ writer # path /\ ~half
    /\ writer' = path
    /\ UNCHANGED <<content, path, line, half, rotations, truncations, forwarder>>

\* copytruncate, between two lines; never gentle.
Truncate ==
    /\ ~gentle /\ truncations < MaxTruncations /\ Mishaps < MaxMishaps /\ path # NoFile /\ ~half
    /\ content[path] # <<>>
    /\ content' = [content EXCEPT ![path] = <<>>]
    /\ truncations' = truncations + 1
    /\ UNCHANGED <<path, writer, line, half, rotations, forwarder>>

-----------------------------------------------------------------------------
(* The follower *)

Size(i) == Len(content[i])

Goto(label) == pc' = label

\* Where the caller of SaveCheckpoint goes on once the directory is synced.
AfterSync == [synced |-> "lines", drainsynced |-> "drainlines", waitsynced |-> "wait"]

\* SaveCheckpoint: the new file is written and synced under another name, then
\* renamed over the old one; the caller goes on to sync the directory.
SaveCheckpoint(i, offset, next) ==
    /\ checkpoint' = [inode |-> i, offset |-> offset]
    /\ Goto(next)

\* The directory is not synced.
SyncDirectoryLater ==
    /\ pc \in DOMAIN AfterSync
    /\ Goto(AfterSync[pc])
    /\ UNCHANGED <<world, crashes, checkpoint, durable, ctxDone, follower, cur, history>>

\* SaveCheckpoint's end: syncDirectory makes the rename last.
SyncDirectory ==
    /\ pc \in DOMAIN AfterSync
    /\ durable' = checkpoint
    /\ Goto(AfterSync[pc])
    /\ UNCHANGED <<world, crashes, checkpoint, ctxDone, follower, cur, history>>

\* What a loss of power may leave of a checkpoint that was renamed before its
\* content was synced.
RenamedUnsynced == Torn

\* What it may leave of one that was synced first.
Renamed == checkpoint

Exit == /\ pc' = "down" /\ ctxDone' = FALSE
        /\ file' = NoFile /\ readOffset' = 0 /\ committedOffset' = 0 /\ pending' = <<>>
        /\ cur' = <<>>

\* Resume at the checkpoint whatever file is at the path now.
ResumeOffsetAnyFile(i) == IF checkpoint.offset <= Size(i) THEN checkpoint.offset ELSE 0

ResumeOffset(i) ==
    IF checkpoint.inode = i /\ checkpoint.offset <= Size(i) THEN checkpoint.offset ELSE 0

\* openFileWithIdentity, and the follower's state after it.
OpenAt(offset) ==
    /\ file' = path
    /\ readOffset' = offset /\ committedOffset' = offset
    /\ pending' = <<>>

\* LoadConfig and openFromCheckpoint.  Without a source file, or with a
\* checkpoint that does not parse, the process exits again at once.
openFromCheckpoint ==
    /\ pc = "down" /\ Accepted(config, path # NoFile) /\ checkpoint # Torn
    /\ OpenAt(ResumeOffset(path))
    /\ Goto("read")
    /\ UNCHANGED <<world, crashes, checkpoint, durable, ctxDone, cur, history>>

\* One Read of readAvailable: up to a buffer of what lies after readOffset, or
\* EOF, after which the caller goes on.  pc is "drain" in handleFileChanges.
Read ==
    /\ pc \in {"read", "drain"}
    /\ LET end == IF readOffset + BufUnits < Size(file) THEN readOffset + BufUnits
                                                        ELSE Size(file)
       IN  IF readOffset < end
           THEN /\ pending' = pending \o SubSeq(content[file], readOffset + 1, end)
                /\ readOffset' = end
                /\ Goto(IF pc = "read" THEN "lines" ELSE "drainlines")
           ELSE /\ Goto(IF pc = "read" THEN "stat" ELSE "reopen")
                /\ UNCHANGED <<pending, readOffset>>
    /\ UNCHANGED <<world, crashes, checkpoint, durable, ctxDone, file, committedOffset, cur, history>>

NewlineAt == {i \in DOMAIN pending : pending[i].nl}

\* Cut the first line off pending, or read on when there is none.
CutLine ==
    /\ pc \in {"lines", "drainlines"}
    /\ IF NewlineAt = {}
       THEN /\ Goto(IF pc = "lines" THEN "read" ELSE "drain")
            /\ UNCHANGED <<pending, committedOffset, cur>>
       ELSE LET idx == CHOOSE i \in NewlineAt : \A j \in NewlineAt : i <= j
            IN  /\ cur' = SubSeq(pending, 1, idx)
                /\ pending' = SubSeq(pending, idx + 1, Len(pending))
                /\ committedOffset' = committedOffset + idx
                /\ Goto(IF pc = "lines" THEN "deliver" ELSE "draindeliver")
    /\ UNCHANGED <<world, crashes, checkpoint, durable, ctxDone, file, readOffset, history>>

Delivering == pc \in {"deliver", "draindeliver"}
Whole(c)   == \E l \in Lines : c = <<[line |-> l, nl |-> FALSE], [line |-> l, nl |-> TRUE]>>
CurLine    == cur[1].line

Handle(outcome) ==
    /\ IF Whole(cur)
       THEN /\ handled' = [handled EXCEPT ![CurLine] = @ + 1]
            /\ fate' = [fate EXCEPT ![CurLine] = @ \cup outcome]
            /\ UNCHANGED torn
       ELSE torn' = TRUE /\ UNCHANGED <<handled, fate>>
    /\ Goto(IF pc = "deliver" THEN "save" ELSE "drainsave")
    /\ UNCHANGED <<world, crashes, checkpoint, durable, ctxDone, follower, cur>>

\* What the parser makes of the line; of glued halves, anything.
Parsed == IF Whole(cur) THEN {Parse(config, LineKinds[CurLine])} ELSE {"event", "error"}

\* The parser rejects the line: it is counted and logged, nothing else.
ParseFails == Delivering /\ "error" \in Parsed /\ Handle({"dropped"})

Delivered == Delivering /\ ~ctxDone /\ "event" \in Parsed /\ Handle({"stored"})

\* Delivery fails, as it does when the context is cancelled, though the server
\* may have stored the line; one without a message is not even sent.  The line
\* goes to the dead letters.
DeliveryFails ==
    /\ Delivering
    /\ \/ Parsed \cap {"event", "empty"} # {} /\ Handle({"dead"})
       \/ "event" \in Parsed /\ Handle({"dead", "stored"})

\* The dead-letter file cannot be written: the callback's error ends Run.
DeadLetterFails ==
    /\ Delivering /\ Parsed # {"error"} /\ Mishaps < MaxMishaps
    /\ gentle => file = path
    /\ crashes' = crashes + 1
    /\ Exit
    /\ UNCHANGED <<world, checkpoint, durable, history>>

SaveAfterLine ==
    /\ pc \in {"save", "drainsave"}
    /\ SaveCheckpoint(file, committedOffset, IF pc = "save" THEN "synced" ELSE "drainsynced")
    /\ cur' = <<>>
    /\ UNCHANGED <<world, crashes, durable, ctxDone, follower, history>>

\* handleFileChanges up to its decision: no file now, the same file, the same
\* file shrunk below what was read, or another file.
StatFile ==
    /\ pc = "stat"
    /\ \/ /\ path = file /\ Size(path) < readOffset
          /\ OpenAt(0)
          /\ SaveCheckpoint(file, 0, "waitsynced")
       \/ /\ path = NoFile \/ (path = file /\ Size(path) >= readOffset)
          /\ Goto("wait") /\ UNCHANGED <<checkpoint, follower>>
       \/ /\ path \notin {file, NoFile}
          /\ Goto("drain") /\ UNCHANGED <<checkpoint, follower>>
    /\ UNCHANGED <<world, crashes, durable, ctxDone, cur, history>>

\* The partly read line of the old file is kept when the new one is opened.
SwitchFileKeepPending ==
    /\ pc = "reopen"
    /\ IF path = NoFile
       THEN Exit /\ UNCHANGED checkpoint
       ELSE /\ file' = path
            /\ readOffset' = 0 /\ committedOffset' = 0
            /\ SaveCheckpoint(path, 0, "waitsynced")
            /\ UNCHANGED <<pending, ctxDone, cur>>
    /\ UNCHANGED <<world, crashes, durable, history>>

\* The old file is read to its end: open the new one, from its start.  When it
\* is gone again, the error ends the process.
SwitchFile ==
    /\ pc = "reopen"
    /\ IF path = NoFile
       THEN Exit /\ UNCHANGED checkpoint
       ELSE /\ OpenAt(0)
            /\ SaveCheckpoint(path, 0, "waitsynced")
            /\ UNCHANGED <<ctxDone, cur>>
    /\ UNCHANGED <<world, crashes, durable, history>>

\* The select picks either case when the tick and ctx.Done are both ready.
Tick ==
    /\ pc = "wait"
    /\ \/ Goto("read") /\ UNCHANGED <<ctxDone, follower, cur>>
       \/ ctxDone /\ Exit
    /\ UNCHANGED <<world, crashes, checkpoint, durable, history>>

\* SIGINT.  Only os.Interrupt is caught: any other signal is a crash.
Interrupt ==
    /\ pc # "down" /\ ~ctxDone /\ Mishaps < MaxMishaps
    /\ gentle => file = path
    /\ ctxDone' = TRUE /\ crashes' = crashes + 1
    /\ UNCHANGED <<world, checkpoint, durable, pc, follower, cur, history>>

\* The process is killed, or Run returns an error (of a read, a seek, a checkpoint)
\* and main ends with log.Fatalf.
Crash ==
    /\ pc # "down" /\ Mishaps < MaxMishaps
    /\ gentle => file = path
    /\ crashes' = crashes + 1
    /\ Exit
    /\ UNCHANGED <<world, checkpoint, durable, history>>

\* The machine loses power.  A rename that was not synced may be undone, and the
\* dead letters, which are never synced, may be gone.  The application's own
\* file is taken to survive.
PowerLoss ==
    /\ pc # "down" /\ Mishaps < MaxMishaps
    /\ gentle => file = path
    /\ crashes' = crashes + 1
    /\ Exit
    /\ \E left \in {durable, IF checkpoint = durable THEN durable ELSE Renamed} :
          checkpoint' = left /\ durable' = left
    /\ fate' \in {fate, [l \in Lines |-> IF "dead" \in fate[l]
                                         THEN (fate[l] \ {"dead"}) \cup {"erased"} ELSE fate[l]]}
    /\ UNCHANGED <<world, handled, torn>>

-----------------------------------------------------------------------------
Step == openFromCheckpoint \/ Read \/ CutLine \/ ParseFails \/ Delivered \/ DeliveryFails
          \/ SaveAfterLine \/ SyncDirectory \/ StatFile \/ SwitchFile \/ Tick

World == WriteFirstHalf \/ WriteSecondHalf \/ Rename \/ Create \/ Reopen \/ Truncate

Next == Step \/ DeadLetterFails \/ Interrupt \/ Crash \/ PowerLoss \/ World

Spec == Init /\ [][Next]_vars

\* The forwarder runs and is restarted when it is down; a rotation that renamed
\* the file creates the new one.
FairSpec == Spec /\ WF_vars(Step) /\ WF_vars(Create)

-----------------------------------------------------------------------------
(* Properties *)

TypeOK ==
    /\ gentle \in BOOLEAN
    /\ content \in [Inodes -> Seq(Units)]
    /\ path \in Inodes \cup {NoFile} /\ writer \in Inodes
    /\ line \in 1..(Len(LineKinds) + 1) /\ half \in BOOLEAN
    /\ {checkpoint, durable} \subseteq [inode : Inodes \cup {NoFile}, offset : Nat]
    /\ pc \in {"down", "read", "lines", "deliver", "save", "stat", "wait", "drain", "drainlines",
               "draindeliver", "drainsave", "reopen"} \cup DOMAIN AfterSync
    /\ ctxDone \in BOOLEAN
    /\ file \in Inodes \cup {NoFile}
    /\ readOffset \in Nat /\ committedOffset \in Nat
    /\ pending \in Seq(Units) /\ cur \in Seq(Units)
    /\ handled \in [Lines -> Nat] /\ fate \in [Lines -> SUBSET Fates]

\* The lines that end within the first n units of file i.
LinesWithin(i, n) == {content[i][k].line : k \in {k \in 1..Size(i) : k <= n /\ content[i][k].nl}}

\* A line the configured parser must take.
InFormat(l) ==
    \/ config.parser_mode = "custom"
    \/ config.parser_mode = "json" /\ LineKinds[l] = "json"
    \/ config.parser_mode = "regex" /\ LineKinds[l] = "pattern"

\* The checkpoint is never ahead of the work: every line it covers is stored or
\* dead-lettered, or is not in the configured format, through crashes, failed
\* dead letters, rotations, losses of power and restarts.  (A truncated file may
\* have grown past its checkpoint again; a loss of power may erase a dead
\* letter, though not the checkpoint that counts on it.)
CheckpointNotAhead ==
    (checkpoint.inode # NoFile /\ truncations = 0) =>
      \A l \in LinesWithin(checkpoint.inode, checkpoint.offset) :
         fate[l] \cap ({"stored", "dead", "erased"} \cup (IF InFormat(l) THEN {} ELSE {"dropped"})) # {}

\* What is handed to the callback is always one line somebody wrote: never the
\* halves of two, also not across a rotation in the middle of a line.
\* (A truncation and regrowth between two polls is not noticed.)
OnlyWholeLines == truncations = 0 => ~torn

\* A crash or a loss of power costs at most one line sent again: the one handled
\* but not yet checkpointed for good.  Without a crash no line is sent twice, also
\* not one that follows a truncation.
ResentLines == {l \in Lines : handled[l] > 1}
FewResent == Cardinality(ResentLines) <= crashes

\* Bytes read and bytes committed differ by what is pending, also after a
\* truncation or a switch of files.
OffsetsAgree == readOffset = committedOffset + Len(pending)

\* Where files are rotated gently (see Rename), every line the application
\* completed is handled in the end, through crashes and losses of power.
Written(l) == \E i \in Inodes : \E k \in 1..Size(i) : content[i][k] = [line |-> l, nl |-> TRUE]
EveryLineHandled == gentle => \A l \in Lines : Written(l) ~> handled[l] > 0

\* "No data loss across crash/restart": the same, however files are rotated.
NothingLost == \A l \in Lines : Written(l) ~> handled[l] > 0
=============================================================================
