---------------------------- MODULE Conversions ----------------------------
(***************************************************************************)
(* What the crate does to a value on its way to UCX and back: thread modes *)
(* (thread_mode.rs), memory types (memory_type.rs), datatypes (dt.rs) and  *)
(* socket addresses (ep/attr.rs, listener.rs).                             *)
(***************************************************************************)
EXTENDS Bytes

----------------------------------------------------------------------------
(* Enumerations.  The C values are the numbers of bindings.rs.             *)

ThreadMode == {"single", "serialized", "multi", "unknown"}

\* ucs_thread_mode_t, the end-of-enum value 3 included
FfiThreadMode == 0 .. 3

\* ThreadMode::to_ffi
ThreadModeToFfi(m) ==
    CASE m = "single"     -> 0
      [] m = "serialized" -> 1
      [] OTHER            -> 2

\* ThreadMode::from_ffi
ThreadModeFromFfi(raw) ==
    CASE raw = 0 -> "single"
      [] raw = 1 -> "serialized"
      [] raw = 2 -> "multi"
      [] OTHER   -> "unknown"

\* The known memory types in the order of ucs_memory_type_t; unknown follows.
MemoryTypes == <<"host", "cuda", "cuda_managed", "rocm", "rocm_managed", "rdma",
                 "ze_host", "ze_device", "ze_managed">>
MemoryType == {MemoryTypes[i] : i \in DOMAIN MemoryTypes} \cup {"unknown"}
FfiMemoryType == 0 .. 9

\* MemoryType::to_ffi
MemoryTypeToFfi(t) ==
    IF t = "unknown" THEN 9
    ELSE (CHOOSE i \in DOMAIN MemoryTypes : MemoryTypes[i] = t) - 1

\* MemoryType::from_ffi
MemoryTypeFromFfi(raw) == IF raw = 9 THEN "unknown" ELSE MemoryTypes[raw + 1]

----------------------------------------------------------------------------
(* Datatypes: a class in the low three bits, the element size above.       *)

UCP_DATATYPE_CONTIG == 0
UCP_DATATYPE_IOV == 2
ClassMod == 8

\* The number of values of a u64.
U64Mod == U32Mod * U32Mod

\* dt_make_contig: the shift drops what does not fit in a u64.
DtMakeContig(size) == ((size * ClassMod) % U64Mod) + UCP_DATATYPE_CONTIG

\* dt_make_iov
DtMakeIov == UCP_DATATYPE_IOV

\* How UCX reads a datatype.
DtClass(dt) == dt % ClassMod
DtSize(dt) == dt \div ClassMod

----------------------------------------------------------------------------
(* Socket addresses.  An integer in memory is the sequence of its bytes in *)
(* the order of the machine; UCX and the kernel expect the most            *)
(* significant byte first.                                                 *)

Endian == {"little", "big"}

Reversed(b) == [i \in DOMAIN b |-> b[Len(b) + 1 - i]]

\* The bytes in memory of an integer of four bytes, and the way back:
\* u32::to_ne_bytes, u32::from_ne_bytes.
Stored32(en, n) == IF en = "little" THEN ToLeBytes(n) ELSE Reversed(ToLeBytes(n))
Loaded32(en, b) == IF en = "little" THEN FromLeBytes(b) ELSE FromLeBytes(Reversed(b))

\* u32::to_be and u32::from_be: swapped on a little-endian machine.
Swapped32(en, n) ==
    IF en = "big" THEN n ELSE FromLeBytes(Reversed(ToLeBytes(n)))

\* u16::to_be and u16::from_be
Swapped16(en, n) ==
    IF en = "big" THEN n ELSE ByteMod * (n % ByteMod) + n \div ByteMod

\* The bytes in memory of an integer of two bytes.
Stored16(en, n) ==
    IF en = "big" THEN <<n \div ByteMod, n % ByteMod>>
    ELSE <<n % ByteMod, n \div ByteMod>>

\* Mutant of SockAddrV4: from_be_bytes for from_ne_bytes.
SockAddrV4BeBytes(en, octets, port) ==
    [family |-> "inet", port |-> Swapped16(en, port),
     addr |-> FromLeBytes(Reversed(octets)), flowinfo |-> 0, scope |-> 0]

\* SockAddr::new for an IPv4 address: sin_addr.s_addr is an integer.
SockAddrV4(en, octets, port) ==
    [family |-> "inet", port |-> Swapped16(en, port),
     addr |-> Loaded32(en, octets), flowinfo |-> 0, scope |-> 0]

\* SockAddr::new for an IPv6 address: s6_addr is an array of bytes.
SockAddrV6(en, octets, port, flowinfo, scope) ==
    [family |-> "inet6", port |-> Swapped16(en, port), addr |-> octets,
     flowinfo |-> Swapped32(en, flowinfo), scope |-> scope]

NoSocketAddr == [family |-> "none", octets |-> << >>, port |-> 0]

\* from_storage: SocketAddr::new leaves out an IPv6 address's flow and scope.
FromStorage(en, sa) ==
    CASE sa.family = "inet"  ->
            [family |-> "inet", port |-> Swapped16(en, sa.port),
             octets |-> Reversed(ToLeBytes(Swapped32(en, sa.addr)))]
      [] sa.family = "inet6" ->
            [family |-> "inet6", port |-> Swapped16(en, sa.port), octets |-> sa.addr]
      [] OTHER               -> NoSocketAddr

----------------------------------------------------------------------------
(* Properties.                                                             *)

\* On a machine of either byte order, an IPv4 address and its port reach the
\* kernel most significant byte first, and an address read back is the one
\* that was set; of an IPv6 address its octets and port are.
SocketAddrsSurvive ==
    \A en \in Endian, octets \in [1 .. 4 -> Byte], port \in 0 .. U16Mod - 1 :
        LET v4 == SockAddrV4(en, octets, port)
            v6 == SockAddrV6(en, octets, port, port, port)
        IN  /\ Stored32(en, v4.addr) = octets
            /\ Stored16(en, v4.port) = <<port \div ByteMod, port % ByteMod>>
            /\ FromStorage(en, v4) = [family |-> "inet", octets |-> octets,
                                      port |-> port]
            /\ FromStorage(en, v6) = [family |-> "inet6", octets |-> octets,
                                      port |-> port]

\* Every size a datatype has room for is read back by UCX as a contiguous
\* datatype of that size, and none is taken for the I/O vector datatype.
ContigExact ==
    \A size \in 0 .. (U64Mod \div ClassMod) - 1 :
        LET dt == DtMakeContig(size)
        IN  /\ DtClass(dt) = UCP_DATATYPE_CONTIG
            /\ DtSize(dt) = size
            /\ dt # DtMakeIov
=============================================================================
