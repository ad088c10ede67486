----------------------------- MODULE GenericRun -----------------------------
(***************************************************************************)
(* Runs of consecutive bitfields laid out by the Generic engine, the way   *)
(* layout_compound_generic drives it: set MAX_ALIGN and BYTE_ORDER for the *)
(* struct, reset the engine at the first bitfield of the run, set ALIGN    *)
(* and OFFSET, push the fields one by one, finalize.  The engine's object  *)
(* outlives the run and is used again for the next one, so whatever reset  *)
(* forgets is still there.  The loop inside Generic_push is a step of its  *)
(* own: that it ends is something to be shown.                             *)
(*                                                                         *)
(* A bitfield has the size and the alignment of its declared type, which   *)
(* get_type_info_generic makes equal for the types a bitfield may have.    *)
(***************************************************************************)
EXTENDS BLGeneric, Sequences

CONSTANTS Starts,       \* struct sizes at which a run begins
          Requests,     \* the fields [bits, size] that may be pushed
          Packs,        \* values of MAX_ALIGN (Alignment, or #pragma pack)
          StructAligns, \* alignments the struct may have when a run begins
          MaxPushes     \* bound: fields in one run

ASSUME GenericAssumption ==
  /\ Starts \subseteq Nat
  /\ Requests \subseteq [bits : Nat, size : {1, 2, 4, 8}]
  /\ \A r \in Requests : r.bits <= 8 * r.size
  /\ Packs \subseteq {1, 2, 4, 8, 16}
  /\ StructAligns \subseteq {1, 2, 4, 8, 16}
  /\ MaxPushes \in Nat

VARIABLES bl,      \* the engine's object
          pc,      \* "idle", then "first", "next", "loop" within a run
          req,     \* the field being pushed, and the position it came from
          decls,   \* what the pushes stored in the declarators
          pushes   \* how many fields were pushed in this run

vars == <<bl, pc, req, decls, pushes>>

NoReq == [bits |-> 0, size |-> 1, from |-> 0]

Init == /\ bl = Generic_init
        /\ pc = "idle"
        /\ req = NoReq
        /\ decls = << >>
        /\ pushes = 0

\* The first bitfield of a run: reset, then ALIGN and OFFSET.
Open(start, pack, align, order) ==
  /\ pc = "idle"
  /\ pc' = "first"
  /\ bl' = [Generic_reset(bl) EXCEPT !.max_align = pack, !.align = align,
                                     !.offset = start, !.byte_order = order]
  /\ req' = NoReq
  /\ decls' = << >>
  /\ pushes' = 0

\* A push enters Generic_push and runs up to its loop.
Push(r) ==
  /\ pc \in {"first", "next"}
  /\ pushes < MaxPushes
  /\ pc' = "loop"
  /\ req' = [bits |-> r.bits, size |-> r.size, from |-> Generic_position(bl)]
  /\ bl' = Generic_retype(bl, r.size, r.size)
  /\ pushes' = pushes + 1
  /\ decls' = decls

Move ==
  /\ pc = "loop"
  /\ Generic_mustMove(bl, req.bits)
  /\ bl' = Generic_move(bl)
  /\ UNCHANGED <<pc, req, decls, pushes>>

\* The loop is left; the push stores its result and returns.
EndPush ==
  /\ pc = "loop"
  /\ ~Generic_mustMove(bl, req.bits)
  /\ pc' = "next"
  /\ bl' = Generic_place(bl, req.bits)
  /\ decls' = IF req.bits = 0 THEN decls
              ELSE Append(decls, Generic_decl(bl, req.bits))
  /\ UNCHANGED <<req, pushes>>

\* FINISH_BITFIELD: another kind of member follows, or the struct ends.
Close ==
  /\ pc = "next"
  /\ pc' = "idle"
  /\ bl' = Generic_finalize(bl)
  /\ UNCHANGED <<req, decls, pushes>>

Next ==
  \/ \E s \in Starts, p \in Packs, a \in StructAligns, o \in ByteOrders :
       Open(s, p, a, o)
  \/ \E r \in Requests : Push(r)
  \/ Move
  \/ EndPush
  \/ Close

Spec == Init /\ [][Next]_vars

\* The library runs to completion: once a push has begun, its loop goes on.
FairSpec == Spec /\ WF_vars(Move \/ EndPush)

-----------------------------------------------------------------------------

\* The bits the declarators describe, in the order of the pushes.
Fields == [i \in 1 .. Len(decls) |-> BitRange(decls[i], bl.byte_order)]

\* Refinement mapping: while a push is under way the abstract position is
\* still the one the push started from; after finalize it is the end offset.
Frontier == CASE pc = "loop" -> req.from
              [] pc = "idle" -> Bits(bl.offset)
              [] OTHER       -> Generic_position(bl)

Gcc   == INSTANCE GccAlloc WITH frontier <- Frontier, fields <- Fields,
                                mode <- IF pc = "idle" THEN "idle" ELSE "run",
                                Widths <- {r.bits : r \in Requests}

Sizes == {1, 2, 4, 8}

BLObj == [max_align : {0, 1, 2, 4, 8, 16}, align : Nat, offset : Nat,
          byte_order : ByteOrders, bit_offset : Nat,
          cur_type_size : Sizes \cup {0}, cur_type_align : Sizes \cup {0}]

Decl == [offset : Nat, size : Sizes, bits : Nat, pos : Int]

\* Types: stepping back to a boundary in Generic_push never makes an offset
\* or a bit position negative, a unit has one of the four sizes, and so on.
TypeOK ==
  /\ bl \in BLObj
  /\ pc \in {"idle", "first", "next", "loop"}
  /\ req \in [bits : Nat, size : Sizes, from : Nat]
  /\ decls \in Seq(Decl)
  /\ pushes \in Nat

\* The Generic engine implements GCC's rule, "including GCC" in the words of
\* the documentation, when no type is larger than the alignment in force.
ImplementsGcc == Gcc!GccSpec

\* The loop in Generic_push ends for every width C allows.
PushReturns == pc = "loop" ~> pc = "next"

=============================================================================
