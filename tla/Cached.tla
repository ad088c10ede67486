------------------------------- MODULE Cached -------------------------------
(***************************************************************************)
(* Convert::Binary::C::Cached (Cached.pm): objects that keep what they     *)
(* parsed in a file and read it back in the next process, if the file is   *)
(* for the same options and the same code and no source file has another   *)
(* size or time than when it was parsed.                                   *)
(*                                                                         *)
(* Processes run side by side, may be killed, and share a cache file and   *)
(* the sources, which somebody edits; an edit changes size or times.  The  *)
(* cache file is a sequence of blocks, the pieces it is written in: a      *)
(* header, and the declarations in several parts.  A block is torn while   *)
(* it is half written, and a write past the end of the file leaves holes.  *)
(* A file that ends between two declarations has fewer blocks.             *)
(***************************************************************************)
EXTENDS Integers, Sequences, FiniteSets

CONSTANTS Procs,       \* processes, each with one object at a time
          Wants,       \* process |-> its requests: options, and the code to parse
          Parts,       \* blocks of code in a complete cache file
          MaxEdits,    \* bound: edits of the sources
          MaxKills,    \* bound: processes killed
          Bad          \* the versions of the sources that have a syntax error

ASSUME CachedAssumption ==
  Parts \in Nat \ {0} /\ MaxEdits \in Nat /\ MaxKills \in Nat /\ Bad \subseteq 0..MaxEdits

VARIABLES version,     \* of the sources; their sizes and times go with it
          file,        \* the blocks of the cache file
          obj,         \* process |-> its object
          pc,          \* process |-> what it is about to do
          sound,       \* history: processes that checked a whole file, which has
                       \* not been changed since
          kills

cacheVars == <<version, file, obj, pc, sound, kills>>

Versions == 0..MaxEdits
Requests == UNION {Wants[p] : p \in Procs}
Unknown == -1

\* An empty file is as good as none.
Missing == << >>
Hole == [hole |-> TRUE]
Torn(b) == b.hole \/ b.torn

\* A new object: named, its hash has the file or code to parse; seen, the
\* dependencies a cache file lists, and files, those believed; stamp, those of
\* a parse of its own; pos, how far it has written a cache file.
NewCached(request) == [request |-> request, named |-> FALSE, seen |-> Unknown, files |-> Unknown,
                 stamp |-> Unknown, data |-> << >>, uses_cache |-> FALSE, pos |-> 0]
Gone == NewCached(0)

CacheInit == /\ version = 0 /\ file = Missing /\ kills = 0 /\ sound = {}
             /\ obj = [p \in Procs |-> Gone]
             /\ pc = [p \in Procs |-> "out"]

Goto(p, l) == pc' = [pc EXCEPT ![p] = l]
Become(p, o) == obj' = [obj EXCEPT ![p] = o]
Still == UNCHANGED <<version, kills>>

\* What a parse of the sources gives.
Code(request, ver) == [i \in 1..Parts |-> [request |-> request, ver |-> ver]]

\* All blocks are there and from one process: an open cuts off those of the
\* others.
Whole(f) == Len(f) = Parts + 1 /\ \A i \in DOMAIN f : ~Torn(f[i]) /\ f[i].by = f[1].by

-----------------------------------------------------------------------------
(* The object. *)

CreateCached(p, request) ==
  /\ pc[p] = "out" /\ Goto(p, "ready") /\ Become(p, NewCached(request))
  /\ UNCHANGED <<file, sound>> /\ Still

Cleaned_keepsFiles(o) == [NewCached(o.request) EXCEPT !.files = o.files]

\* clean: all keys but the name of the cache file are deleted, also the one
\* that says what to parse.
Cleaned(o) == NewCached(o.request)

CleanUp(p) ==
  /\ pc[p] = "done" /\ Goto(p, "ready") /\ Become(p, Cleaned(obj[p]))
  /\ sound' = sound \ {p} /\ UNCHANGED file /\ Still

Leave(p) == /\ Goto(p, "out") /\ Become(p, Gone) /\ sound' = sound \ {p}
            /\ UNCHANGED <<version, file>>

Exit(p) == pc[p] = "done" /\ Leave(p) /\ UNCHANGED kills

-----------------------------------------------------------------------------
(* __parse. *)

\* parse or parse_file; only once, unless the object is cleaned.
Parse(p) ==
  /\ pc[p] = "ready" /\ Goto(p, "header")
  /\ Become(p, [obj[p] EXCEPT !.named = TRUE])
  /\ UNCHANGED <<file, sound>> /\ Still

\* The header is for the same options and the same code; it names none if the
\* process that wrote it had cleaned its object before.
SameHeader(h, request) == h.named /\ h.request = request

\* __can_use_cache, up to the files.  A torn header may be a complete one, of
\* which only the #endif is missing.
CheckHeader(p) ==
  LET good == /\ file # Missing /\ ~file[1].hole
              /\ SameHeader(file[1], obj[p].request)
  IN  /\ pc[p] = "header"
      /\ \/ good /\ Goto(p, "files") /\ Become(p, [obj[p] EXCEPT !.seen = file[1].ver])
         \/ (good => file[1].torn) /\ Goto(p, "stat") /\ UNCHANGED obj
      /\ sound' = IF good /\ Whole(file) THEN sound \cup {p} ELSE sound \ {p}
      /\ UNCHANGED file /\ Still

SameStamps_any(ver) == TRUE

\* Size, mtime and ctime of every file are the recorded ones.
SameStamps(ver) == ver = version

CheckFiles(p) ==
  /\ pc[p] = "files"
  /\ IF SameStamps(obj[p].seen)
     THEN Goto(p, "cache") /\ Become(p, [obj[p] EXCEPT !.files = obj[p].seen, !.seen = Unknown])
     ELSE Goto(p, "stat") /\ Become(p, [obj[p] EXCEPT !.seen = Unknown])
  /\ UNCHANGED <<file, sound>> /\ Still

\* The cache file is parsed; warnings count as errors.
ParseCache(p) ==
  LET errors == \E i \in DOMAIN file : Torn(file[i])
  IN  /\ pc[p] = "cache"
      /\ IF errors THEN Goto(p, "stat") /\ Become(p, Cleaned(obj[p]))
         ELSE /\ Goto(p, "done")
              /\ Become(p, [obj[p] EXCEPT
                              !.uses_cache = TRUE,
                              !.data = [i \in 1..(Len(file) - 1) |->
                                          [request |-> file[i + 1].request, ver |-> file[i + 1].ver]]])
      /\ UNCHANGED <<file, sound>> /\ Still

\* A parse of the sources: size and times of a file are taken when it is
\* opened (fileinfo_new), then it is read.
Stat(p) ==
  /\ pc[p] = "stat" /\ Goto(p, "read") /\ Become(p, [obj[p] EXCEPT !.stamp = version])
  /\ UNCHANGED <<file, sound>> /\ Still

Read(p) ==
  /\ pc[p] = "read"
  /\ IF version \in Bad THEN Goto(p, "done") /\ UNCHANGED obj
     ELSE Goto(p, "open") /\ Become(p, [obj[p] EXCEPT !.data = Code(obj[p].request, version)])
  /\ UNCHANGED <<file, sound>> /\ Still

-----------------------------------------------------------------------------
(* __save_cache. *)

\* Who is between its look at the header and the parse of the cache file reads
\* another file than it checked.
Disturb == sound' = {q \in sound : pc[q] \notin {"files", "cache"}}

\* The file is cut off first, then written in place.
Open(p) ==
  /\ pc[p] = "open" /\ Goto(p, "write") /\ Become(p, [obj[p] EXCEPT !.pos = 0])
  /\ file' = Missing /\ Disturb /\ Still

Written_unnamed(p, i, torn) ==
  LET o == obj[p]
  IN  IF i = 1
      THEN [hole |-> FALSE, by |-> p, torn |-> torn, request |-> o.request, ver |-> o.stamp,
            named |-> FALSE]
      ELSE [hole |-> FALSE, by |-> p, torn |-> torn, request |-> o.data[i - 1].request,
            ver |-> o.data[i - 1].ver]

\* A header has the dependencies of the object's own parse.
Written(p, i, torn) ==
  LET o == obj[p]
  IN  IF i = 1
      THEN [hole |-> FALSE, by |-> p, torn |-> torn, request |-> o.request, ver |-> o.stamp,
            named |-> o.named]
      ELSE [hole |-> FALSE, by |-> p, torn |-> torn, request |-> o.data[i - 1].request,
            ver |-> o.data[i - 1].ver]

Put(f, i, b) ==
  [j \in 1..(IF Len(f) < i THEN i ELSE Len(f)) |->
     IF j = i THEN b ELSE IF j <= Len(f) THEN f[j] ELSE Hole]

\* Half a block after the other, at the place in the file where p is.
Write(p) ==
  LET i == obj[p].pos \div 2 + 1
  IN  /\ pc[p] = "write"
      /\ file' = Put(file, i, Written(p, i, obj[p].pos % 2 = 0))
      /\ Become(p, [obj[p] EXCEPT !.pos = @ + 1])
      /\ IF obj[p].pos = 2 * Parts + 1 THEN Goto(p, "done") ELSE UNCHANGED pc
      /\ Disturb /\ Still

-----------------------------------------------------------------------------
(* What happens to processes and sources. *)

Kill(p) ==
  /\ kills < MaxKills /\ pc[p] \notin {"out", "ready", "done"}
  /\ kills' = kills + 1 /\ Leave(p)

Edit == /\ version < MaxEdits /\ version' = version + 1
        /\ UNCHANGED <<file, obj, pc, sound, kills>>

InCall(p) == \/ CheckHeader(p) \/ CheckFiles(p) \/ ParseCache(p) \/ Stat(p) \/ Read(p)
             \/ Open(p) \/ Write(p)

CacheNext ==
  \/ \E p \in Procs : \/ \E r \in Wants[p] : CreateCached(p, r)
                       \/ CleanUp(p) \/ Exit(p) \/ Parse(p) \/ InCall(p) \/ Kill(p)
  \/ Edit

\* A process that runs goes on with a call it has begun.
CacheSpec == CacheInit /\ [][CacheNext]_cacheVars /\ \A p \in Procs : WF_cacheVars(InCall(p))

-----------------------------------------------------------------------------
(* Properties. *)

Ready(p) == pc[p] = "done"

\* A cache file that one process wrote to its end, and nobody touched between
\* the look at its header and its parse, is used only if it holds what a parse
\* of the sources would have given at that look: the same options and code,
\* and no source is newer (__can_use_cache).
SoundIsRight ==
  \A p \in sound : Ready(p) /\ obj[p].uses_cache =>
    obj[p].data = Code(obj[p].request, obj[p].files)

\* dependencies() tells the files as they were when what the object holds was
\* parsed: also for one that tried the cache first.
Dependencies(p) == IF obj[p].files # Unknown THEN obj[p].files ELSE obj[p].stamp

DependenciesMatch ==
  \A p \in Procs : Ready(p) =>
    /\ ~obj[p].uses_cache => Dependencies(p) = obj[p].stamp
    /\ p \in sound \/ ~obj[p].uses_cache =>
         \A i \in DOMAIN obj[p].data : Dependencies(p) <= obj[p].data[i].ver

\* A file that is taken for a cache of the request though it is none: it can be
\* parsed, but is cut off between two blocks, or put together from the blocks
\* of two processes.
Deceptive(f, request) ==
  /\ f # Missing /\ ~Whole(f) /\ \A i \in DOMAIN f : ~Torn(f[i])
  /\ SameHeader(f[1], request) /\ SameStamps(f[1].ver)

\* Only process p is left, it comes again and again with the same request, and
\* the sources can be parsed.
Alone(p) == \A q \in Procs \ {p} : pc[q] = "out"
Returns(p, r) ==
  /\ <>[](Alone(p) /\ version \notin Bad /\ (pc[p] = "out" \/ obj[p].request = r))
  /\ []<>(pc[p] = "header")

\* What p then has, in the end: what a parse of the sources gives, and from the
\* cache.
Healed(p, r) == Ready(p) => obj[p].uses_cache /\ obj[p].data = Code(r, version)

\* The cache heals (__can_use_cache, __parse): whatever the others left in the
\* file, p ends up with what is in the sources, read from the cache, unless what
\* was left is a deceptive file, which is not replaced any more.
Heals ==
  \A p \in Procs : \A r \in Wants[p] :
    Returns(p, r) => <>[]Healed(p, r) \/ <>[]Deceptive(file, r)

=============================================================================
