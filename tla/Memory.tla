------------------------------- MODULE Memory -------------------------------
(***************************************************************************)
(* Contexts, memory handles and the buffers they are packed into           *)
(* (context.rs, memh.rs, RemoteKey::pack), beside the builders.            *)
(*                                                                         *)
(* A MemHandle keeps the address of its context and does not borrow it.    *)
(* MemHandleGuard borrows the registered buffer, MemHandle does not.  A    *)
(* packed buffer is UCX's and has to be given back to it.                  *)
(*                                                                         *)
(* The operations here take builders of kind "pack"; contexts and memory   *)
(* handles are made from parameters that do not outlive the call.          *)
(***************************************************************************)
EXTENDS Builders, RkeyFraming

CONSTANTS
    Ctx,            \* contexts
    Memh,           \* variables for memory handles
    Pack,           \* variables for packed buffers
    Buf,            \* addresses of UCX's packed buffers
    Payload         \* what UCX may pack

HandleState == [ctx : Ctx, of : {"ucx", "caller", "slice"}]
PackedState == [api : {"memh", "rkey"}, buf : Buf, payload : Payload \cup {<< >>},
                bytes : Seq(Byte)]

ASSUME MemoryAssumption ==
    /\ Payload \subseteq Seq(Byte)
    /\ Nil \notin HandleState /\ Nil \notin PackedState

VARIABLES
    ctx,            \* the contexts
    memh,           \* the memory handles
    buffer,         \* the program's buffer: "live" or "freed"
    packed,         \* the PackedMemhBuffers and PackedRkeyBuffers
    ubuf,           \* UCX's packed buffers that were not released
    orderly,        \* no context was dropped before its memory handles
    faults          \* what UCX was called with and must not be

memVars == <<ctx, memh, buffer, packed, ubuf, orderly, faults>>

MemoryInit ==
    /\ Init
    /\ ctx = [c \in Ctx |-> "none"]
    /\ memh = [m \in Memh |-> Nil]
    /\ buffer = "live"
    /\ packed = [q \in Pack |-> Nil]
    /\ ubuf = {}
    /\ orderly = TRUE
    /\ faults = {}

----------------------------------------------------------------------------
(* Contexts.                                                               *)

\* Context::new with parameters it admits.
ContextNew(c) ==
    /\ ctx[c] = "none"
    /\ ctx' = [ctx EXCEPT ![c] = "live"]
    /\ UNCHANGED <<memh, buffer, packed, ubuf, orderly, faults>>

HandlesOf(c) == {m \in Memh : memh[m] # Nil /\ memh[m].ctx = c}

\* Context::drop: nothing ties a memory handle to its context.
ContextDrop(c) ==
    /\ ctx[c] = "live"
    /\ ctx' = [ctx EXCEPT ![c] = "cleaned"]
    /\ orderly' = (orderly /\ HandlesOf(c) = {})
    /\ UNCHANGED <<memh, buffer, packed, ubuf, faults>>

----------------------------------------------------------------------------
(* Memory handles.                                                         *)

\* A handle that is part of a MemHandleGuard.
Borrows(h) == h.of = "slice"

Lent == \E m \in Memh : memh[m] # Nil /\ Borrows(memh[m])

\* Mutant of Mapped: the context at hand when the handle is dropped.
MappedAnyContext(m, c, of) ==
    \E d \in {x \in Ctx : ctx[x] # "none"} :
        memh' = [memh EXCEPT ![m] = [ctx |-> d, of |-> of]]

\* The MemHandle that MemHandle::map returns when ucp_mem_map succeeded.
Mapped(m, c, of) == memh' = [memh EXCEPT ![m] = [ctx |-> c, of |-> of]]

\* MemHandle::map: UCX allocates the memory, or registers the program's.
MemMap(c, m, of) ==
    /\ ctx[c] = "live"
    /\ memh[m] = Nil
    /\ of = "caller" => buffer = "live" /\ ~Lent
    /\ Mapped(m, c, of)
    /\ UNCHANGED <<ctx, buffer, packed, ubuf, orderly, faults>>

\* MemHandle::map_slice: flags that do not fit in a u32 are refused.
MapSlice(c, m, flags) ==
    /\ ctx[c] = "live"
    /\ memh[m] = Nil
    /\ buffer = "live" /\ ~Lent
    /\ IF flags >= U32Mod THEN UNCHANGED memh ELSE Mapped(m, c, "slice")
    /\ UNCHANGED <<ctx, buffer, packed, ubuf, orderly, faults>>

\* The program's buffer goes out of scope.
BufferDrop ==
    /\ buffer = "live" /\ ~Lent
    /\ buffer' = "freed"
    /\ UNCHANGED <<ctx, memh, packed, ubuf, orderly, faults>>

\* UCX is called with handle m.
Called(m, call) ==
    IF ctx[memh[m].ctx] = "live" THEN faults ELSE faults \cup {call}

\* MemHandle::advise and MemHandle::query
MemUse(m) ==
    /\ memh[m] # Nil
    /\ faults' = Called(m, "use")
    /\ UNCHANGED <<ctx, memh, buffer, packed, ubuf, orderly>>

\* MemHandle::drop unmaps, whatever became of the context.
MemDrop(m) ==
    /\ memh[m] # Nil
    /\ faults' = Called(m, "unmap")
    /\ memh' = [memh EXCEPT ![m] = Nil]
    /\ UNCHANGED <<ctx, buffer, packed, ubuf, orderly>>

----------------------------------------------------------------------------
(* Packed buffers.  UCX makes one at an address u and fills it.            *)

\* pack_memh.  When ucp_memh_pack fails, nothing was allocated.  What it packs
\* is not framed, and left out.
PackMemh(b, m, q) ==
    /\ bld[b] # Nil
    /\ memh[m] # Nil
    /\ packed[q] = Nil
    /\ faults' = Called(m, "use")
    /\ \/ UNCHANGED <<packed, ubuf>>
       \/ \E u \in Buf \ ubuf :
             /\ ubuf' = ubuf \cup {u}
             /\ packed' = [packed EXCEPT
                    ![q] = [api |-> "memh", buf |-> u, payload |-> << >>,
                            bytes |-> << >>]]
    /\ UNCHANGED <<ctx, memh, buffer, orderly>>

\* Mutant of FromRawParts: the length is the frame's.
FromRawPartsWhole(payload) ==
    IF Len(payload) >= U32Mod THEN Failed
    ELSE Succeeded(ToLeBytes(4 + Len(payload)) \o payload)

\* PackedRkeyBuffer::from_raw_parts
FromRawParts(payload) ==
    IF Len(payload) >= U32Mod THEN Failed
    ELSE Succeeded(ToLeBytes(Len(payload)) \o payload)

\* The two contexts of pack_rkey and RemoteKey::pack need not be the same.
PackedWith(c, m) ==
    IF memh[m].ctx = c THEN faults ELSE faults \cup {"foreign"}

\* Mutant of PackRkey: the buffer is lost when it cannot be framed.
PackRkeyLosing(c, m, q) ==
    /\ ctx[c] = "live"
    /\ memh[m] # Nil
    /\ packed[q] = Nil
    /\ faults' = PackedWith(c, m)
    /\ \E u \in Buf \ ubuf, payload \in Payload :
          LET framed == FromRawParts(payload)
          IN  /\ ubuf' = ubuf \cup {u}
              /\ packed' = IF framed.ok
                           THEN [packed EXCEPT
                                   ![q] = [api |-> "rkey", buf |-> u,
                                           payload |-> payload,
                                           bytes |-> framed.bytes]]
                           ELSE packed
    /\ UNCHANGED <<ctx, memh, buffer, orderly>>

\* pack_rkey.  The buffer is released when its length does not fit the frame.
PackRkey(c, m, q) ==
    /\ ctx[c] = "live"
    /\ memh[m] # Nil
    /\ packed[q] = Nil
    /\ faults' = PackedWith(c, m)
    /\ \/ UNCHANGED <<packed, ubuf>>
       \/ \E u \in Buf \ ubuf, payload \in Payload :
             LET framed == FromRawParts(payload)
             IN  IF framed.ok
                 THEN /\ ubuf' = ubuf \cup {u}
                      /\ packed' = [packed EXCEPT
                             ![q] = [api |-> "rkey", buf |-> u,
                                     payload |-> payload, bytes |-> framed.bytes]]
                 ELSE /\ ubuf' = (ubuf \cup {u}) \ {u}
                      /\ UNCHANGED packed
    /\ UNCHANGED <<ctx, memh, buffer, orderly>>

\* RemoteKey::pack copies the frame, or fails to; the buffer is released.
RemoteKeyPack(c, m) ==
    /\ ctx[c] = "live"
    /\ memh[m] # Nil
    /\ faults' = PackedWith(c, m)
    /\ \/ UNCHANGED ubuf
       \/ \E u \in Buf \ ubuf : ubuf' = (ubuf \cup {u}) \ {u}
    /\ UNCHANGED <<ctx, memh, buffer, packed, orderly>>

\* PackedMemhBuffer::drop and PackedRkeyBuffer::drop
PackedDrop(q) ==
    /\ packed[q] # Nil
    /\ ubuf' = ubuf \ {packed[q].buf}
    /\ packed' = [packed EXCEPT ![q] = Nil]
    /\ UNCHANGED <<ctx, memh, buffer, orderly, faults>>

----------------------------------------------------------------------------

MemoryStep ==
    \/ \E c \in Ctx :
          \/ ContextNew(c) \/ ContextDrop(c)
          \/ \E m \in Memh :
                \/ \E of \in {"ucx", "caller"} : MemMap(c, m, of)
                \/ \E flags \in {0, U32Mod - 1, U32Mod} : MapSlice(c, m, flags)
                \/ \E q \in Pack : PackRkey(c, m, q)
                \/ RemoteKeyPack(c, m)
    \/ \E m \in Memh :
          \/ MemUse(m) \/ MemDrop(m)
          \/ \E b \in Builder, q \in Pack : PackMemh(b, m, q)
    \/ \E q \in Pack : PackedDrop(q)
    \/ BufferDrop

\* After a call UCX must not get, anything may happen; it is not followed.
MemoryNext ==
    /\ faults = {}
    /\ \/ Next /\ UNCHANGED memVars
       \/ kind = "pack" /\ MemoryStep /\ UNCHANGED vars

MemorySpec == MemoryInit /\ [][MemoryNext]_<<vars, memVars>>

----------------------------------------------------------------------------
(* Properties.                                                             *)

\* The one type invariant of Builders and this module; a frame is made of
\* bytes.
MemoryTypeOK ==
    /\ TypeOK
    /\ ctx \in [Ctx -> {"none", "live", "cleaned"}]
    /\ memh \in [Memh -> HandleState \cup {Nil}]
    /\ buffer \in {"live", "freed"}
    /\ packed \in [Pack -> PackedState \cup {Nil}]
    /\ ubuf \subseteq Buf
    /\ orderly \in BOOLEAN
    /\ faults \subseteq {"use", "unmap", "foreign"}

PacksOf(u) == {q \in Pack : packed[q] # Nil /\ packed[q].buf = u}

PackedOneOwner ==
    \A u \in Buf : Cardinality(PacksOf(u)) = IF u \in ubuf THEN 1 ELSE 0

\* Whatever was allocated has one owner until it is released, and none
\* afterwards, on the error paths too: the CString of name(), which build()
\* moves; the buffer UCX packed, which a key that is too long to be framed
\* leaves without a Rust owner (PackedRkeyBuffer::from_raw_parts).
OneOwner ==
    /\ NameOneOwner
    /\ PackedOneOwner

\* Every buffer of up to five bytes.
ShortBuffer == UNION {[1 .. n -> Byte] : n \in 0 .. 5}

FramingExact ==
    /\ \A payload \in Payload \cup ShortBuffer : RoundTrips(payload)
    /\ \A b \in ShortBuffer : OnlyFrames(b)

\* What as_bytes() of a packed key shows, RemoteKey::unpack takes apart into
\* what UCX packed, although the two sides are written separately; and it
\* takes nothing apart that is not such a frame (frame_rkey_payload,
\* unframe_rkey_payload).
PackedKeyUnpacks ==
    /\ FramingExact
    /\ \A q \in Pack : packed[q] # Nil /\ packed[q].api = "rkey" =>
          UnframeRkeyPayload(packed[q].bytes) = Succeeded(packed[q].payload)

\* A program that drops its contexts after their memory handles never has UCX
\* use or unmap a handle of a context that is gone; and what map_slice
\* registered is not freed before it is unmapped (MemHandleGuard).
OrderlyIsSafe ==
    /\ orderly => faults \subseteq {"foreign"}
    /\ \A m \in Memh : memh[m] # Nil /\ memh[m].of = "slice" => buffer = "live"

----------------------------------------------------------------------------
(* The inductive invariant behind these properties.                        *)

\* No two owners of a packed buffer, and none without an owner.
BuffersOwned ==
    /\ \A q \in Pack : packed[q] # Nil => packed[q].buf \in ubuf
    /\ \A q, r \in Pack :
          packed[q] # Nil /\ packed[r] # Nil /\ packed[q].buf = packed[r].buf => q = r
    /\ \A u \in ubuf : PacksOf(u) # {}

\* A packed key is the frame of what UCX packed.
Framed ==
    \A q \in Pack : packed[q] # Nil /\ packed[q].api = "rkey" =>
        /\ packed[q].payload \in Payload
        /\ FrameRkeyPayload(packed[q].payload) = Succeeded(packed[q].bytes)

\* As long as the program is orderly, every handle's context is there.
ContextsOutlive ==
    orderly => \A m \in Memh : memh[m] # Nil => ctx[memh[m].ctx] = "live"

\* The inductive invariant, with the type invariants.
MemoryInv ==
    /\ BuildersInv
    /\ MemoryTypeOK
    /\ BuffersOwned
    /\ Framed
    /\ ContextsOutlive
    /\ OrderlyIsSafe
=============================================================================
