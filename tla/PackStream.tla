----------------------------- MODULE PackStream -----------------------------
(***************************************************************************)
(* A pack from its loose objects to extracted files: the frames that       *)
(* create_pack_impl compresses in parallel (src/src/repo/repository.rs,    *)
(* src/src/batch.rs), and the reading of entries back out of them          *)
(* (src/src/repo/pack.rs): extract with and without --verify, the check of *)
(* link targets that precedes it, and show.  A frame is its decompressed   *)
(* stream; byte i of object o is <<o, i>>, so that a stream read at the    *)
(* wrong place shows.  One loose object may be missing or cut short: it is *)
(* packed unverified.  When files appear under their names is the subject  *)
(* of module PackRepo.                                                     *)
(***************************************************************************)
EXTENDS PackIndex

CONSTANTS Unreadable,  \* the all-zero checksum of an empty file store could not open
          MaxFrames,   \* bound on --frames
          MaxWorkers   \* bound on --threads

ASSUME PackStreamAssumption ==
    /\ Unreadable \in Objects
    /\ Size[Unreadable] = 0
    /\ MaxFrames \in Nat /\ MaxWorkers \in Nat \ {0}

VARIABLES
    store,    \* object -> the bytes of the loose object, or Nil
    phase,    \* "building", "compressing", "packed", "reading", "done"
    frames,   \* the number of frames asked for
    packFile, \* the .pack: its frames in order, or Nil
    threads,  \* the threads of run_in_parallel
    job,      \* the command that reads the pack, see NoJob
    result    \* its result: whether it succeeded, and the files it made or returned

vars == <<index, idxFile, pushed, store, phase, frames, packFile, threads, job, result>>

NoJob == [kind |-> "none", tag |-> Nil, verify |-> FALSE, workers |-> 1]

Bytes(o) == [i \in 1..Size[o] |-> <<o, i>>]
Intact == [o \in Objects |-> Bytes(o)]

\* verify_object: no content has the all-zero checksum.
Matches(buf, o) == o # Unreadable /\ buf = Bytes(o)

\* A loose object that is gone, or has lost its last byte.
Damaged == {[Intact EXCEPT ![o] = Nil] : o \in Objects \ {Unreadable}}
           \cup {[Intact EXCEPT ![o] = Front(@)] : o \in {x \in Objects : Size[x] > 0}}

Init ==
    /\ IndexInit
    /\ store \in {Intact} \cup Damaged
    /\ phase = "building"
    /\ frames = 0
    /\ packFile = Nil
    /\ threads = <<>>
    /\ job = NoJob
    /\ result = Nil

\* run_in_parallel is not called for an empty list of entries.
Run(n, tasks) == IF tasks = <<>> THEN <<>> ELSE Spawn(n, tasks)

-----------------------------------------------------------------------------
(* Making the pack                                                         *)

PushSnapshot(t, s) ==
    /\ phase = "building"
    /\ Push(t, s)
    /\ UNCHANGED <<store, phase, frames, packFile, threads, job, result>>

\* create_pack_impl up to the compression: the layout, and one task per slice.
Compress(n, workers) ==
    /\ phase = "building"
    /\ index.tags # <<>>
    /\ index' = LaidOut(index)
    /\ frames' = n
    /\ threads' = Run(workers, partition_by_u64(Ordering(index), n,
                                    [h \in DOMAIN index.meta |-> index.meta[h].size]))
    /\ phase' = "compressing"
    /\ UNCHANGED <<idxFile, pushed, store, packFile, job, result>>

\* compress_files: the loose objects one after the other, unverified; the empty
\* object without a checksum is not on disk.
Frame(handles) ==
    LET bytes == [i \in DOMAIN handles |-> store[index.objs[handles[i]]]]
    IN  IF Contains(bytes, Nil) THEN Nil ELSE FlattenSeq(bytes)

CompressFrame(g) ==
    /\ phase = "compressing"
    /\ threads[g].todo # <<>>
    /\ threads' = Ran(threads, g, Frame(Head(threads[g].todo)))
    /\ UNCHANGED <<index, idxFile, pushed, store, phase, frames, packFile, job, result>>

\* The frames in the order of their tasks, then the index.
WritePack ==
    /\ phase = "compressing"
    /\ AllRan(threads)
    /\ ~Contains(Joined(threads), Nil)
    /\ packFile' = Joined(threads)
    /\ idxFile' = Serialized(index)
    /\ threads' = <<>>
    /\ phase' = "packed"
    /\ UNCHANGED <<index, pushed, store, frames, job, result>>

\* The first error of a compression ends the command, and its index with it.
WritePackFailed ==
    /\ phase = "compressing"
    /\ AllRan(threads)
    /\ Contains(Joined(threads), Nil)
    /\ phase' = "building"
    /\ index' = EmptyIndex
    /\ pushed' = <<>>
    /\ frames' = 0
    /\ threads' = <<>>
    /\ UNCHANGED <<idxFile, store, packFile, job, result>>

\* A pack of an older program: one stream without a header, opened by
\* open_pack_legacy, and an index of version 1 or 2.
LegacyPack(v) ==
    /\ phase = "building"
    /\ index.tags # <<>>
    /\ Features(index) = {}
    /\ Frame(Ordering(index)) # Nil
    /\ index' = LaidOut(index)
    /\ frames' = 1
    /\ packFile' = <<Frame(Ordering(index))>>
    /\ idxFile' = SerializedLegacy(LaidOut(index), v)
    /\ phase' = "packed"
    /\ UNCHANGED <<pushed, store, threads, job, result>>

-----------------------------------------------------------------------------
(* Reading entries out of the frames                                       *)

\* compute_frame_decompressed_offset
FrameStart(k) == Total([j \in 1..k - 1 |-> Len(packFile[j])])

\* rposition: the last frame that does not start after the object.
FrameOf(e) == Max({k \in DOMAIN packFile : FrameStart(k) <= e.offset})

\* A reader opened at a frame: the decoder goes on into the frames that follow.
StreamFrom(k) == FlattenSeq(SubSeq(packFile, k, Len(packFile)))

\* assign_to_frames: one task per frame that has entries, offsets made relative.
FrameTasks(entries) ==
    LET local(k) == {[e EXCEPT !.offset = @ - FrameStart(k)] : e \in {x \in entries : FrameOf(x) = k}}
    IN  FoldLeft(LAMBDA tasks, task : IF task.entries = {} THEN tasks ELSE Append(tasks, task), <<>>,
                 [k \in DOMAIN packFile |-> [stream |-> StreamFrom(k), entries |-> local(k)]])

\* Entries come from a hash set and are sorted by offset, stably: any order that
\* agrees with the offsets.
InOffsetOrder(entries) ==
    {s \in SetToSeqs(entries) : \A i, j \in DOMAIN s : i < j => s[i].offset <= s[j].offset}

\* Where a reader is: the position it has consumed, the last object it read, and
\* what it made of the entries so far.
Start == [pos |-> 0, buf |-> <<>>, ok |-> TRUE, files |-> {}]

\* PackReader::seek and read_exact, unless the object is the one just read.
Advance(stream, at, e) ==
    IF at.pos > e.offset THEN at
    ELSE [at EXCEPT !.pos = e.offset + e.size,
                    !.buf = SubSeq(stream, e.offset + 1, Min({e.offset + e.size, Len(stream)})),
                    !.ok = @ /\ (e.size > 0 => e.offset + e.size <= Len(stream))]

File(e, buf) == [path |-> e.path, meta |-> e.meta, bytes |-> buf]

\* Mutant: the empty file is written from the buffer like any other.
ExtractEntryPlain(stream, verify, at, e) ==
    LET read == Advance(stream, at, e)
        ok == read.ok /\ (at.pos <= e.offset /\ verify => Matches(read.buf, e.obj))
    IN  IF ~at.ok THEN at
        ELSE IF ~ok THEN [read EXCEPT !.ok = FALSE]
        ELSE [read EXCEPT !.files = @ \cup {File(e, read.buf)}]

\* One turn of the loop of extract_files.  Only an object that is read is
\* verified; an empty regular file is made without the buffer; a link that was
\* made is verified as well.
ExtractEntry(stream, verify, at, e) ==
    LET read == Advance(stream, at, e)
        fresh == at.pos <= e.offset
        ok == /\ read.ok
              /\ fresh /\ verify => Matches(read.buf, e.obj)
              /\ e.meta = Symlink /\ verify => Matches(read.buf, e.obj)
        bytes == IF e.size = 0 /\ e.meta # Symlink THEN <<>> ELSE read.buf
    IN  IF ~at.ok THEN at
        ELSE IF ~ok THEN [read EXCEPT !.ok = FALSE]
        ELSE [read EXCEPT !.files = @ \cup {File(e, bytes)}]

\* One turn of the loop of read_objects; the entry is kept for its checksum.
ReadObject(stream, at, e) ==
    LET read == Advance(stream, at, e)
    IN  IF ~at.ok THEN at
        ELSE IF e.size = 0 THEN [at EXCEPT !.files = @ \cup {<<e, <<>>>>}]
        ELSE IF ~read.ok THEN [read EXCEPT !.ok = FALSE]
        ELSE [read EXCEPT !.files = @ \cup {<<e, read.buf>>}]

\* The workload of a thread on its next frame.
Extracted(task, order) ==
    FoldLeft(LAMBDA at, e : ExtractEntry(task.stream, job.verify, at, e), Start, order)
ReadFrame(task, order) ==
    FoldLeft(LAMBDA at, e : ReadObject(task.stream, at, e), Start, order)

\* extract: entries are resolved, and the targets of the links are read first.
BeginExtract(t, verify, workers) ==
    /\ phase = "packed"
    /\ Parse(idxFile) # Nil
    /\ Contains(Parse(idxFile).tags, t)
    /\ job' = [kind |-> "preflight", tag |-> t, verify |-> verify, workers |-> workers]
    /\ LET links == {e \in Resolve(Parse(idxFile), t) : e.meta = Symlink}
           tasks == FrameTasks(links)
       IN  threads' = Run(Min({workers, Len(tasks)}), tasks)
    /\ phase' = "reading"
    /\ UNCHANGED <<index, idxFile, pushed, store, frames, packFile, result>>

\* show: Repository::read_entry_objects over the snapshot's entries.
BeginShow(t, workers) ==
    /\ phase = "packed"
    /\ Parse(idxFile) # Nil
    /\ Contains(Parse(idxFile).tags, t)
    /\ job' = [kind |-> "show", tag |-> t, verify |-> TRUE, workers |-> workers]
    /\ LET tasks == FrameTasks(Resolve(Parse(idxFile), t))
       IN  threads' = Run(Min({workers, Len(tasks)}), tasks)
    /\ phase' = "reading"
    /\ UNCHANGED <<index, idxFile, pushed, store, frames, packFile, result>>

ReadStep(g) ==
    /\ phase = "reading"
    /\ threads[g].todo # <<>>
    /\ LET task == Head(threads[g].todo)
       IN  \E order \in InOffsetOrder(task.entries) :
              threads' = Ran(threads, g, IF job.kind = "extract" THEN Extracted(task, order)
                                         ELSE ReadFrame(task, order))
    /\ UNCHANGED <<index, idxFile, pushed, store, phase, frames, packFile, job, result>>

\* What the threads made, and whether all of them succeeded.
AllOk == \A i \in DOMAIN Joined(threads) : Joined(threads)[i].ok
AllFiles == UNION {Joined(threads)[i].files : i \in DOMAIN Joined(threads)}

\* decode_target accepts the bytes of a link; whether it accepts others depends
\* on what they are.
PreflightDone ==
    /\ phase = "reading" /\ job.kind = "preflight"
    /\ AllRan(threads)
    /\ AllOk
    /\ job' = [job EXCEPT !.kind = "extract"]
    /\ threads' = Run(Min({job.workers, Len(packFile)}),
                      FrameTasks(Resolve(Parse(idxFile), job.tag)))
    /\ UNCHANGED <<index, idxFile, pushed, store, phase, frames, packFile, result>>

PreflightFailed ==
    /\ phase = "reading" /\ job.kind = "preflight"
    /\ AllRan(threads)
    /\ AllOk => \E f \in AllFiles : ~Matches(f[2], f[1].obj)
    /\ result' = [ok |-> FALSE, files |-> {}]
    /\ phase' = "done"
    /\ threads' = <<>>
    /\ UNCHANGED <<index, idxFile, pushed, store, frames, packFile, job>>

ExtractDone ==
    /\ phase = "reading" /\ job.kind = "extract"
    /\ AllRan(threads)
    /\ result' = [ok |-> AllOk, files |-> AllFiles]
    /\ phase' = "done"
    /\ threads' = <<>>
    /\ UNCHANGED <<index, idxFile, pushed, store, frames, packFile, job>>

\* Mutant: the checksum of an empty regular file is verified like any other.
ShowDoneStrict ==
    /\ phase = "reading" /\ job.kind = "show"
    /\ AllRan(threads)
    /\ LET ok == AllOk /\ \A f \in AllFiles : Matches(f[2], f[1].obj)
       IN  result' = [ok |-> ok, files |-> IF ok THEN {File(f[1], f[2]) : f \in AllFiles} ELSE {}]
    /\ phase' = "done"
    /\ threads' = <<>>
    /\ UNCHANGED <<index, idxFile, pushed, store, frames, packFile, job>>

\* read_entry_objects verifies every object that is not an empty regular file.
ShowDone ==
    /\ phase = "reading" /\ job.kind = "show"
    /\ AllRan(threads)
    /\ LET ok == /\ AllOk
                 /\ \A f \in AllFiles :
                       f[1].size > 0 \/ f[1].meta = Symlink => Matches(f[2], f[1].obj)
       IN  result' = [ok |-> ok, files |-> IF ok THEN {File(f[1], f[2]) : f \in AllFiles} ELSE {}]
    /\ phase' = "done"
    /\ threads' = <<>>
    /\ UNCHANGED <<index, idxFile, pushed, store, frames, packFile, job>>

\* The next command.
Close ==
    /\ phase = "done"
    /\ phase' = "packed"
    /\ job' = NoJob
    /\ result' = Nil
    /\ UNCHANGED <<index, idxFile, pushed, store, frames, packFile, threads>>

Next ==
    \/ \E t \in Tags, s \in Snapshots : PushSnapshot(t, s)
    \/ \E n \in 0..MaxFrames, w \in 1..MaxWorkers : Compress(n, w)
    \/ \E g \in DOMAIN threads : CompressFrame(g) \/ ReadStep(g)
    \/ WritePack \/ WritePackFailed
    \/ \E v \in {1, 2} : LegacyPack(v)
    \/ \E t \in Tags, verify \in BOOLEAN, w \in 1..MaxWorkers : BeginExtract(t, verify, w)
    \/ \E t \in Tags, w \in 1..MaxWorkers : BeginShow(t, w)
    \/ PreflightDone \/ PreflightFailed \/ ExtractDone \/ ShowDone
    \/ Close

Spec == Init /\ [][Next]_vars

-----------------------------------------------------------------------------
(* Properties                                                              *)

\* A snapshot as the file can hold it: version 1 has no modes.
Recorded(s) ==
    IF idxFile.version = 1 THEN {[e EXCEPT !.meta = DefaultMode] : e \in s} ELSE s

Wanted(t) == LET k == CHOOSE i \in DOMAIN pushed : pushed[i][1] = t IN Recorded(pushed[k][2])

\* An index that was saved and is parsed again has the tags in the order they were
\* pushed, and replaying its deltas gives back every snapshot exactly: the
\* assertions of apply_changes hold, the counts that are summed without replaying
\* are right, equal snapshots and only those have equal checksums, and an index
\* with links says that it needs a reader that knows them.
RoundTrip ==
    idxFile # Nil =>
        LET ix == Parse(idxFile)
        IN  /\ ix # Nil
            /\ ParseTags(idxFile) = [k \in DOMAIN pushed |-> pushed[k][1]]
            /\ Applies(ix)
            /\ \A k \in DOMAIN pushed :
                  /\ SnapshotChecksum(ix, pushed[k][1]) = Recorded(pushed[k][2])
                  /\ FileCount(ix)[k] = Cardinality(pushed[k][2])
                  /\ (\E e \in pushed[k][2] : e.meta = Symlink) => "symlinks" \in idxFile.features

\* The frames that parallel threads compressed tile the stream the index
\* describes: every object once, whole inside the frame it is looked for in, at
\* the offset of the index, in no more frames than asked for.
FramesTile ==
    packFile # Nil /\ store = Intact =>
        LET ix == Parse(idxFile)
            bytes == FlattenSeq(packFile)
        IN  /\ Len(packFile) <= Max({frames, 1})
            /\ Len(bytes) = Total([o \in ToSet(ix.objs) |-> Size[o]])
            /\ \A h \in DOMAIN ix.objs :
                  LET m == ix.meta[h]
                      k == FrameOf(m)
                  IN  /\ SubSeq(bytes, m.offset + 1, m.offset + m.size) = Bytes(ix.objs[h])
                      /\ m.offset + m.size <= FrameStart(k) + Len(packFile[k])

\* A command that reports success made exactly the files of the snapshot, whatever
\* the number of frames and of threads and the order of the entries: always with
\* --verify and for show, even from a pack made of damaged objects, and without
\* --verify from a pack made of intact ones.
SuccessIsExact ==
    phase = "done" /\ result.ok /\ (job.verify \/ store = Intact) =>
        result.files = {File(e, Bytes(e.obj)) : e \in Wanted(job.tag)}

\* A pack of intact objects is always readable; the exception is that extract
\* --verify may refuse an empty file that store was not allowed to open, whose
\* recorded checksum is the checksum of nothing.
IntactIsReadable ==
    phase = "done" /\ store = Intact /\ ~result.ok =>
        /\ job.kind = "extract" /\ job.verify
        /\ \E e \in Wanted(job.tag) : e.obj = Unreadable
=============================================================================
