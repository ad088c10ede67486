------------------------------ MODULE EngineRun -----------------------------
(***************************************************************************)
(* Runs of consecutive bitfields laid out by any of the three engines,     *)
(* driven by layout_compound_generic as in GenericRun, here with a push as *)
(* one step and with packing tighter than the types.                       *)
(*                                                                         *)
(* The parser does not compare a width with its type.  Microsoft refuses   *)
(* what is too wide; the layouter then dies with a fatal error and the run *)
(* is given up, but the engine's object stays and serves the next run.     *)
(* Simple takes everything.  Generic would never leave its loop, and such  *)
(* fields are not pushed to it here.                                       *)
(***************************************************************************)
EXTENDS BLEngine, Sequences

CONSTANTS Starts,       \* struct sizes at which a run begins
          Requests,     \* the fields [bits, size] that may be pushed
          Packs,        \* values of MAX_ALIGN (Alignment, or #pragma pack)
          StructAligns, \* alignments the struct may have when a run begins
          BlockSizes,   \* values of the BlockSize option of Simple
          MaxPushes     \* bound: fields in one run

ASSUME EngineAssumption ==
  /\ Starts \subseteq Nat
  /\ Requests \subseteq [bits : Nat, size : {1, 2, 4, 8}]
  /\ Packs \subseteq {1, 2, 4, 8, 16}
  /\ StructAligns \subseteq {1, 2, 4, 8, 16}
  /\ BlockSizes \subseteq {1, 2, 4, 8}
  /\ MaxPushes \in Nat

VARIABLES class,   \* the class of the engine; it does not change
          bl,      \* the engine's object
          pc,      \* "idle", then "first", "next" within a run
          decls,   \* what the pushes stored in the declarators
          pushes,  \* history: the fields pushed in this run
          sound    \* history: nothing yet that the run's engine cannot cope with

vars == <<class, bl, pc, decls, pushes, sound>>

Init == /\ \/ class \in {"Generic", "Microsoft"} /\ bl = bl_create(class)
           \/ class = "Simple" /\ \E b \in BlockSizes : bl = Simple_init(b)
        /\ pc = "idle"
        /\ decls = << >>
        /\ pushes = << >>
        /\ sound = TRUE

\* The first bitfield of a run: reset, then ALIGN and OFFSET.
Open(start, pack, align, order) ==
  /\ pc = "idle"
  /\ pc' = "first"
  /\ bl' = [bl_reset(class, bl) EXCEPT !.max_align = pack, !.align = align,
                                       !.offset = start, !.byte_order = order]
  /\ decls' = << >>
  /\ pushes' = << >>
  /\ sound' = TRUE
  /\ class' = class

\* Generic skips to a wrong boundary for a field of width zero whose type is
\* larger than the packing; Simple does not check widths.
Copes(r) ==
  CASE class = "Generic"   -> r.bits > 0 \/ r.size <= bl.max_align
    [] class = "Microsoft" -> TRUE
    [] class = "Simple"    -> r.bits <= Bits(bl.block_size)

Pushed(r) == bl_push(class, bl, r.bits, r.size, r.size)

MayPush(r) ==
  /\ pc \in {"first", "next"}
  /\ Len(pushes) < MaxPushes
  /\ class = "Generic" => r.bits <= Bits(r.size)

Push(r) ==
  /\ MayPush(r)
  /\ ~Pushed(r).refused
  /\ pc' = "next"
  /\ bl' = Pushed(r).bl
  /\ decls' = IF r.bits = 0 THEN decls ELSE Append(decls, Pushed(r).decl)
  /\ pushes' = Append(pushes, r)
  /\ sound' = (sound /\ Copes(r))
  /\ class' = class

\* BLE_BITFIELD_TOO_WIDE, turned into a fatal error by the layouter.
Refuse(r) ==
  /\ MayPush(r)
  /\ Pushed(r).refused
  /\ pc' = "idle"
  /\ bl' = Pushed(r).bl
  /\ decls' = << >>
  /\ pushes' = << >>
  /\ sound' = FALSE
  /\ class' = class

\* FINISH_BITFIELD: another kind of member follows, or the struct ends.
Close ==
  /\ pc = "next"
  /\ pc' = "idle"
  /\ bl' = bl_finalize(class, bl)
  /\ UNCHANGED <<class, decls, pushes, sound>>

Next ==
  \/ \E s \in Starts, p \in Packs, a \in StructAligns, o \in ByteOrders :
       Open(s, p, a, o)
  \/ \E r \in Requests : Push(r) \/ Refuse(r)
  \/ Close

Spec == Init /\ [][Next]_vars

-----------------------------------------------------------------------------

\* The bits the declarators describe, in the order of the pushes.
Fields == [i \in 1 .. Len(decls) |-> BitRange(decls[i], bl.byte_order)]

\* The position of an engine in the middle of a run, and at its end.
Position ==
  IF pc = "idle" THEN Bits(bl.offset)
  ELSE CASE class = "Generic"   -> Generic_position(bl)
         [] class = "Microsoft" -> Microsoft_position(bl)
         [] class = "Simple"    -> Simple_position(bl)

\* Refinement mapping: a run that is no longer sound has been abandoned.
Alloc == INSTANCE BitAlloc WITH
           frontier <- IF sound /\ (pc = "first" \/ pushes # << >>) THEN Position ELSE 0,
           fields   <- IF sound THEN Fields ELSE << >>,
           mode     <- IF sound /\ pc # "idle" THEN "run" ELSE "idle",
           Widths   <- {r.bits : r \in Requests}

\* Every engine hands out bits in order and never twice, packed or not, as the
\* layouter relies on, up to the first field the engine cannot cope with; of
\* Microsoft the documentation says so ("can handle packed bitfields").
ImplementsAlloc == Alloc!Spec

\* A field lies inside the unit it is read from, also when packed.
InsideUnit ==
  sound => \A i \in 1 .. Len(decls) :
             decls[i].pos >= 0 /\ decls[i].pos + decls[i].bits <= Bits(decls[i].size)

\* Storage units of Microsoft and Simple never overlap in part: two fields live
\* in the same unit or in disjoint ones, the later field in the later unit.
\* An access to one bitfield therefore never touches the unit of another.  The
\* units of Microsoft begin at a multiple of their clamped alignment, and the
\* struct is aligned for each of them.
UnitsNest ==
  /\ class # "Generic" =>
       \A i, j \in 1 .. Len(decls) : i < j =>
         \/ decls[j].offset = decls[i].offset /\ decls[j].size = decls[i].size
         \/ decls[j].offset >= decls[i].offset + decls[i].size
  /\ class = "Microsoft" =>
       \A i \in 1 .. Len(decls) :
         LET al == Lesser(decls[i].size, bl.max_align)
         IN  decls[i].offset % al = 0 /\ bl.align >= al

\* Each field lies inside of its unit, and whole units belong to the run: at the
\* end no unit of Microsoft or Simple reaches behind the offset at which the
\* layouter puts the next member, fields too wide for a block included.
UnitsInsideRun ==
  /\ InsideUnit
  /\ class # "Generic" /\ pc = "idle" =>
       \A i \in 1 .. Len(decls) : decls[i].offset + decls[i].size <= bl.offset

\* With Microsoft a field shares the unit of its predecessor whenever it has
\* the same type size and still fits, as with cl: units are not wasted.
SharesWhenItFits ==
  [][\A r \in Requests :
       LET n == Len(decls) IN
       (/\ class = "Microsoft" /\ Push(r)
        /\ n > 0
        /\ r.bits > 0 /\ pushes[Len(pushes)].bits > 0
        /\ decls[n].size = r.size
        /\ Fields[n].hi + r.bits <= Bits(decls[n].offset + decls[n].size))
       => decls'[n + 1].offset = decls[n].offset]_vars

=============================================================================
