------------------------------ MODULE MemArena ------------------------------
(***************************************************************************)
(* The memory arena of core/src/mem/mem_arena_aligned.c and the TLV        *)
(* objects of core/src/tlv/tlv.c that are put in it.  Sizes and offsets    *)
(* are unsigned and wrap at WORD (2^32 in the code).  The memory holds, at *)
(* each byte, the object that wrote it last.                               *)
(***************************************************************************)
EXTENDS Integers, FiniteSets

CONSTANTS
    NULL,
    WORD,
    ArenaSizes,   \* the sizes an arena is created with or resized to
    Aligns,       \* the alignments: powers of two
    ObjSizes,     \* the lengths of TLV objects
    TLVIDs        \* the objects: each is made once between two resets

ASSUME ArenaAssumption ==
    /\ WORD \in Nat \ {0}
    /\ ArenaSizes \cup ObjSizes \subseteq 0 .. WORD - 1
    /\ \A a \in Aligns : a \in 1 .. WORD /\ WORD % a = 0

Arena == [mem_align : Nat, mem_cur : Nat, mem_end : Nat, mem_alloc_cnt : Nat]

ASSUME NullAssumption == NULL \notin Arena

VARIABLES
    arena,   \* the arena, or NULL
    mem,     \* what each byte of its memory holds: an object, or NULL
    tlvs,    \* the objects made in it since it was created or reset
    wrapped  \* history: whether a sum has wrapped in an allocation since then

arenaVars == <<arena, mem, tlvs, wrapped>>

ArenaInit ==
    /\ arena = NULL
    /\ mem = <<>>
    /\ tlvs = {}
    /\ wrapped = FALSE

Cleared(size) == [b \in 0 .. size - 1 |-> NULL]

\* mem_arena_init_aligned on the memory that create has allocated.  (A call whose
\* malloc or realloc fails, or that finds no room, returns NULL and changes nothing.)
mem_arena_create_aligned(mem_size, mem_align) ==
    /\ arena = NULL
    /\ arena' = [mem_align |-> mem_align, mem_cur |-> 0, mem_end |-> mem_size,
                 mem_alloc_cnt |-> 0]
    /\ mem' = Cleared(mem_size)
    /\ UNCHANGED <<tlvs, wrapped>>

\* Mutant of OffAligned: rounded down.
OffAlignedDown == arena.mem_cur - (arena.mem_cur % arena.mem_align)

\* (mem_cur + mem_align - 1) & ~(mem_align - 1), for a power of two.
OffAligned ==
    LET sum == (arena.mem_cur + arena.mem_align - 1) % WORD
    IN  sum - (sum % arena.mem_align)

Wraps(size) == arena.mem_cur + arena.mem_align - 1 >= WORD \/ OffAligned + size >= WORD

Fits(size) == size # 0 /\ (OffAligned + size) % WORD <= arena.mem_end

\* TLVDataObject_init_arena_alloc: allocates len bytes and copies the data to them,
\* as far as there is memory behind the pointer.
TLVDataObject_init_arena_alloc(id, len) ==
    /\ arena # NULL
    /\ id \notin {o.id : o \in tlvs}
    /\ Fits(len)
    /\ arena' = [arena EXCEPT !.mem_cur = (OffAligned + len) % WORD,
                              !.mem_alloc_cnt = @ + 1]
    /\ mem' = [b \in DOMAIN mem |-> IF b \in OffAligned .. OffAligned + len - 1 THEN id ELSE mem[b]]
    /\ tlvs' = tlvs \cup {[id |-> id, off |-> OffAligned, len |-> len]}
    /\ wrapped' = (wrapped \/ Wraps(len))

mem_arena_reset ==
    /\ arena # NULL
    /\ arena' = [arena EXCEPT !.mem_cur = 0, !.mem_alloc_cnt = 0]
    /\ mem' = Cleared(arena.mem_end)
    /\ tlvs' = {}
    /\ wrapped' = FALSE

\* realloc keeps the bytes that fit; an object that does not fit is gone.  (The
\* memory may move: the offsets stay, the pointers given out do not.)
mem_arena_heap_resize(new_size) ==
    /\ arena # NULL
    /\ arena' = [arena EXCEPT !.mem_end = new_size]
    /\ mem' = [b \in 0 .. new_size - 1 |-> IF b \in DOMAIN mem THEN mem[b] ELSE NULL]
    /\ tlvs' = {o \in tlvs : o.off + o.len <= new_size}
    /\ UNCHANGED wrapped

mem_arena_destroy ==
    /\ arena # NULL
    /\ arena' = NULL
    /\ mem' = <<>>
    /\ tlvs' = {}
    /\ wrapped' = FALSE

ArenaNext ==
    \/ \E size \in ArenaSizes, align \in Aligns : mem_arena_create_aligned(size, align)
    \/ \E id \in TLVIDs, len \in ObjSizes : TLVDataObject_init_arena_alloc(id, len)
    \/ mem_arena_reset
    \/ \E size \in ArenaSizes : mem_arena_heap_resize(size)
    \/ mem_arena_destroy

ArenaSpec == ArenaInit /\ [][ArenaNext]_arenaVars

-----------------------------------------------------------------------------
(* Correctness. *)

\* The bump pointer and the end are words, and the memory is as long as the end says.
ArenaType ==
    arena # NULL =>
       /\ arena \in Arena
       /\ arena.mem_align \in Aligns
       /\ arena.mem_cur < WORD /\ arena.mem_end < WORD
       /\ DOMAIN mem = 0 .. arena.mem_end - 1

\* Object o is in the memory that was given out, aligned and as it was copied there.
Intact(o) ==
    /\ o.off \in Nat /\ o.len \in Nat
    /\ o.off + o.len <= arena.mem_cur
    /\ o.off % arena.mem_align = 0
    /\ \A b \in o.off .. o.off + o.len - 1 : b \in DOMAIN mem /\ mem[b] = o.id

(* Every object lies below the bump pointer, where no allocation goes that did *)
(* not wrap: the inductive invariant behind ObjectsIntact.                     *)
ArenaIInv ==
    /\ ArenaType
    /\ arena = NULL => tlvs = {}
    /\ ~wrapped => \A o \in tlvs : Intact(o)

(* The data of every object made since the last reset is in the arena, aligned *)
(* and as it was copied there: no later allocation, no growth and no shrinking *)
(* that kept it has touched it, unless the 32-bit sums of an allocation wrapped *)
(* (mem_arena_aligned.c 19-28, 58-68, tlv.c 5-23).                              *)
ObjectsIntact ==
    ~wrapped =>
       \A o \in tlvs :
          /\ o.off % arena.mem_align = 0
          /\ \A b \in o.off .. o.off + o.len - 1 : b \in DOMAIN mem /\ mem[b] = o.id
=============================================================================
