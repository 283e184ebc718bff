------------------------- MODULE ConversionsProofs -------------------------
(***************************************************************************)
(* Proofs about the wire format of a packed key and about the conversions, *)
(* for bytes of any size: TLC's runs have bytes of two values, the program *)
(* has bytes of 256.                                                       *)
(***************************************************************************)
EXTENDS Conversions, RkeyFraming, SequenceTheorems, TLAPS

----------------------------------------------------------------------------
(* Digits.                                                                 *)

LEMMA DivMod ==
    ASSUME NEW n \in Nat
    PROVE  /\ n \div ByteMod \in Nat
           /\ n % ByteMod \in Byte
           /\ n = (n % ByteMod) + ByteMod * (n \div ByteMod)
  BY ByteModAssumption DEF Byte

LEMMA DivBound ==
    ASSUME NEW n \in Nat, NEW m \in Nat, n < ByteMod * m
    PROVE  n \div ByteMod < m
  BY ByteModAssumption

LEMMA DivModUnique ==
    ASSUME NEW r \in Byte, NEW q \in Nat
    PROVE  /\ r + ByteMod * q \in Nat
           /\ (r + ByteMod * q) \div ByteMod = q
           /\ (r + ByteMod * q) % ByteMod = r
  BY ByteModAssumption DEF Byte

LEMMA DigitBound ==
    ASSUME NEW r \in Byte, NEW q \in Nat, NEW m \in Nat, q < m
    PROVE  r + ByteMod * q < ByteMod * m
  BY ByteModAssumption DEF Byte

LEMMA ModNat ==
    /\ ByteMod \in Nat
    /\ ByteMod * ByteMod \in Nat
    /\ ByteMod * (ByteMod * ByteMod) \in Nat
    /\ U32Mod \in Nat
  BY ByteModAssumption DEF U32Mod

\* The value of four bytes, the least significant first.
Word(b1, b2, b3, b4) == b1 + ByteMod * (b2 + ByteMod * (b3 + ByteMod * b4))

LEMMA WordBytes ==
    ASSUME NEW b1 \in Byte, NEW b2 \in Byte, NEW b3 \in Byte, NEW b4 \in Byte
    PROVE  /\ Word(b1, b2, b3, b4) \in Nat
           /\ Word(b1, b2, b3, b4) < U32Mod
           /\ ToLeBytes(Word(b1, b2, b3, b4)) = <<b1, b2, b3, b4>>
  <1> DEFINE w3 == b3 + ByteMod * b4
             w2 == b2 + ByteMod * w3
             w1 == b1 + ByteMod * w2
  <1>1. b4 \in Nat /\ b4 < ByteMod
    BY ByteModAssumption DEF Byte
  <1>2. w3 \in Nat /\ w3 \div ByteMod = b4 /\ w3 % ByteMod = b3
    BY <1>1, DivModUnique
  <1>3. w3 < ByteMod * ByteMod
    BY <1>1, ModNat, DigitBound
  <1> HIDE DEF w3
  <1>4. w2 \in Nat /\ w2 \div ByteMod = w3 /\ w2 % ByteMod = b2
    BY <1>2, DivModUnique
  <1>5. w2 < ByteMod * (ByteMod * ByteMod)
    BY <1>2, <1>3, ModNat, DigitBound
  <1> HIDE DEF w2
  <1>6. w1 \in Nat /\ w1 \div ByteMod = w2 /\ w1 % ByteMod = b1
    BY <1>4, DivModUnique
  <1>7. w1 < U32Mod
    BY <1>4, <1>5, ModNat, DigitBound DEF U32Mod
  <1> HIDE DEF w1
  <1>8. b4 % ByteMod = b4
    BY <1>1, ByteModAssumption
  <1>9. ToLeBytes(w1) = <<b1, b2, b3, b4>>
    BY <1>2, <1>4, <1>6, <1>8 DEF ToLeBytes
  <1>10. Word(b1, b2, b3, b4) = w1
    BY DEF Word, w1, w2, w3
  <1> QED BY <1>6, <1>7, <1>9, <1>10

LEMMA BytesWord ==
    ASSUME NEW n \in Nat, n < U32Mod
    PROVE  \E b1, b2, b3, b4 \in Byte :
              ToLeBytes(n) = <<b1, b2, b3, b4>> /\ n = Word(b1, b2, b3, b4)
  <1> DEFINE d1 == n \div ByteMod
             d2 == d1 \div ByteMod
             d3 == d2 \div ByteMod
  <1>1. /\ d1 \in Nat /\ n % ByteMod \in Byte
        /\ n = (n % ByteMod) + ByteMod * d1
        /\ d1 < ByteMod * (ByteMod * ByteMod)
    BY DivMod, DivBound, ModNat DEF U32Mod
  <1>2. /\ d2 \in Nat /\ d1 % ByteMod \in Byte
        /\ d1 = (d1 % ByteMod) + ByteMod * d2
        /\ d2 < ByteMod * ByteMod
    BY <1>1, DivMod, DivBound, ModNat
  <1>3. /\ d3 \in Nat /\ d2 % ByteMod \in Byte
        /\ d2 = (d2 % ByteMod) + ByteMod * d3
        /\ d3 < ByteMod
    BY <1>2, DivMod, DivBound, ModNat
  <1>4. d3 \in Byte /\ d3 % ByteMod = d3
    BY <1>3, ByteModAssumption DEF Byte
  <1>5. ToLeBytes(n) = <<n % ByteMod, d1 % ByteMod, d2 % ByteMod, d3>>
    BY <1>4 DEF ToLeBytes
  <1>6. n = Word(n % ByteMod, d1 % ByteMod, d2 % ByteMod, d3)
    <2> HIDE DEF d1, d2, d3
    <2> QED BY <1>1, <1>2, <1>3 DEF Word
  <1> QED BY <1>1, <1>2, <1>3, <1>4, <1>5, <1>6

----------------------------------------------------------------------------
(* The wire format.                                                        *)

LEMMA Concatenated ==
    ASSUME NEW S, NEW h \in Seq(S), Len(h) = 4, NEW p \in Seq(S)
    PROVE  /\ h \o p \in Seq(S)
           /\ Len(h \o p) = 4 + Len(p)
           /\ \A i \in 1 .. 4 + Len(p) :
                 (h \o p)[i] = IF i <= 4 THEN h[i] ELSE p[i - 4]
  <1>1. /\ h \o p \in Seq(S)
        /\ Len(h \o p) = Len(h) + Len(p)
        /\ \A i \in 1 .. Len(h) + Len(p) :
              (h \o p)[i] = IF i <= Len(h) THEN h[i] ELSE p[i - Len(h)]
    BY ConcatProperties, Zenon
  <1> QED BY <1>1, Zenon

LEMMA Rest ==
    ASSUME NEW S, NEW s \in Seq(S), NEW m \in Nat, Len(s) = 4 + m
    PROVE  /\ SubSeq(s, 5, 4 + m) \in Seq(S)
           /\ Len(SubSeq(s, 5, 4 + m)) = m
           /\ \A i \in 1 .. m : SubSeq(s, 5, 4 + m)[i] = s[4 + i]
  OBVIOUS

\* A header of four elements and a payload, put together
LEMMA HeaderPayload ==
    ASSUME NEW S, NEW h \in Seq(S), Len(h) = 4, NEW p \in Seq(S)
    PROVE  /\ h \o p \in Seq(S)
           /\ Len(h \o p) = 4 + Len(p)
           /\ \A i \in 1 .. 4 : (h \o p)[i] = h[i]
           /\ SubSeq(h \o p, 5, 4 + Len(p)) = p
  <1>1. PICK f : f = h \o p
    OBVIOUS
  <1>2. PICK n \in Nat : n = Len(p)
    BY LenProperties
  <1>3. /\ f \in Seq(S) /\ Len(f) = 4 + n
        /\ \A i \in 1 .. 4 + n : f[i] = IF i <= 4 THEN h[i] ELSE p[i - 4]
    BY <1>1, <1>2, Concatenated, Zenon
  <1>4. \A i \in 1 .. 4 : f[i] = h[i]
    BY <1>2, <1>3
  <1>5. PICK g \in Seq(S) : /\ g = SubSeq(f, 5, 4 + n)
                            /\ Len(g) = n
                            /\ \A i \in 1 .. n : g[i] = f[4 + i]
    <2>1. /\ SubSeq(f, 5, 4 + n) \in Seq(S)
          /\ Len(SubSeq(f, 5, 4 + n)) = n
          /\ \A i \in 1 .. n : SubSeq(f, 5, 4 + n)[i] = f[4 + i]
      BY <1>3, Rest
    <2> QED BY <2>1, Zenon
  <1>6. \A i \in 1 .. n : g[i] = p[i]
    <2> SUFFICES ASSUME NEW i \in 1 .. n PROVE g[i] = p[i]
      OBVIOUS
    <2>1. 4 + i \in 1 .. 4 + n /\ ~(4 + i <= 4) /\ (4 + i) - 4 = i
      BY <1>2
    <2> QED BY <1>3, <1>5, <2>1
  <1>7. g = p
    BY <1>2, <1>5, <1>6, SeqEqual
  <1> QED BY <1>1, <1>2, <1>3, <1>4, <1>5, <1>7

\* and taken apart.
LEMMA HeaderRest ==
    ASSUME NEW S, NEW s \in Seq(S), NEW m \in Nat, Len(s) = 4 + m,
           NEW h \in Seq(S), Len(h) = 4, \A i \in 1 .. 4 : h[i] = s[i]
    PROVE  /\ SubSeq(s, 5, 4 + m) \in Seq(S)
           /\ Len(SubSeq(s, 5, 4 + m)) = m
           /\ h \o SubSeq(s, 5, 4 + m) = s
  <1>1. PICK p \in Seq(S) : /\ p = SubSeq(s, 5, 4 + m)
                            /\ Len(p) = m
                            /\ \A i \in 1 .. m : p[i] = s[4 + i]
    <2>1. /\ SubSeq(s, 5, 4 + m) \in Seq(S)
          /\ Len(SubSeq(s, 5, 4 + m)) = m
          /\ \A i \in 1 .. m : SubSeq(s, 5, 4 + m)[i] = s[4 + i]
      BY Rest
    <2> QED BY <2>1, Zenon
  <1>2. PICK f : f = h \o p
    OBVIOUS
  <1>3. /\ f \in Seq(S) /\ Len(f) = 4 + m
        /\ \A i \in 1 .. 4 + m : f[i] = IF i <= 4 THEN h[i] ELSE p[i - 4]
    <2>1. Len(p) = m
      BY <1>1
    <2>2. /\ h \o p \in Seq(S)
          /\ Len(h \o p) = 4 + Len(p)
          /\ \A i \in 1 .. 4 + Len(p) :
                (h \o p)[i] = IF i <= 4 THEN h[i] ELSE p[i - 4]
      BY Concatenated
    <2> QED BY <1>2, <2>1, <2>2, Zenon
  <1>4. ASSUME NEW i \in 1 .. 4 + m
        PROVE  f[i] = s[i]
    <2>1. CASE i <= 4
      BY <1>3, <2>1
    <2>2. CASE ~(i <= 4)
      <3>1. i - 4 \in 1 .. m /\ 4 + (i - 4) = i
        BY <2>2
      <3>2. p[i - 4] = s[i]
        BY <1>1, <3>1
      <3> QED BY <1>3, <2>2, <3>2
    <2> QED BY <2>1, <2>2
  <1>5. f = s
    BY <1>3, <1>4, SeqEqual
  <1> QED BY <1>1, <1>2, <1>5

LEMMA FrameBytes ==
    ASSUME NEW payload \in Seq(Byte), Len(payload) < U32Mod
    PROVE  /\ ToLeBytes(Len(payload)) \o payload \in Seq(Byte)
           /\ Len(ToLeBytes(Len(payload)) \o payload) = 4 + Len(payload)
           /\ FromLeBytes(ToLeBytes(Len(payload)) \o payload) = Len(payload)
           /\ SubSeq(ToLeBytes(Len(payload)) \o payload, 5, 4 + Len(payload)) = payload
  <1> DEFINE n == Len(payload)
             h == ToLeBytes(n)
             f == h \o payload
  <1>1. n \in Nat
    BY LenProperties
  <1>2. PICK b1, b2, b3, b4 \in Byte :
           ToLeBytes(n) = <<b1, b2, b3, b4>> /\ n = Word(b1, b2, b3, b4)
    BY <1>1, BytesWord
  <1>3. h \in Seq(Byte) /\ Len(h) = 4 /\ h[1] = b1 /\ h[2] = b2 /\ h[3] = b3 /\ h[4] = b4
    BY <1>2
  <1> HIDE DEF h
  <1>4. /\ f \in Seq(Byte) /\ Len(f) = 4 + n
        /\ \A i \in 1 .. 4 : f[i] = h[i]
        /\ SubSeq(f, 5, 4 + n) = payload
    BY <1>3, HeaderPayload
  <1>5. f[1] = b1 /\ f[2] = b2 /\ f[3] = b3 /\ f[4] = b4
    BY <1>3, <1>4
  <1>6. FromLeBytes(f) = n
    BY <1>2, <1>5 DEF FromLeBytes, Word
  <1> QED BY <1>4, <1>6 DEF h

\* Whatever key UCX packs, RemoteKey::unpack gets the payload back from the
\* frame that frame_rkey_payload made of it, for a key of any length that a u32
\* can hold.
THEOREM UnframingUndoesFraming ==
    \A payload \in Seq(Byte) : RoundTrips(payload)
  <1> SUFFICES ASSUME NEW payload \in Seq(Byte), FrameRkeyPayload(payload).ok
               PROVE  UnframeRkeyPayload(FrameRkeyPayload(payload).bytes)
                         = Succeeded(payload)
    BY DEF RoundTrips
  <1> DEFINE n == Len(payload)
             f == ToLeBytes(n) \o payload
  <1>1. n \in Nat /\ U32Mod \in Nat
    BY LenProperties, ModNat
  <1>2. ~(n >= U32Mod)
    BY DEF FrameRkeyPayload, Failed
  <1>3. FrameRkeyPayload(payload) = Succeeded(f)
    BY <1>2 DEF FrameRkeyPayload
  <1>4. /\ f \in Seq(Byte) /\ Len(f) = 4 + n /\ FromLeBytes(f) = n
        /\ SubSeq(f, 5, 4 + n) = payload
    BY <1>1, <1>2, FrameBytes
  <1> HIDE DEF f, n
  <1>5. FrameRkeyPayload(payload).bytes = f
    BY <1>3 DEF Succeeded
  <1>6. ~(Len(f) < 4) /\ FromLeBytes(f) = Len(f) - 4
    BY <1>1, <1>4
  <1> QED BY <1>4, <1>5, <1>6 DEF UnframeRkeyPayload

\* Nothing but a frame is taken for one: what unframe_rkey_payload accepts is
\* the frame of what it returns.
THEOREM OnlyFramesUnframed ==
    \A buffer \in Seq(Byte) : OnlyFrames(buffer)
  <1> SUFFICES ASSUME NEW buffer \in Seq(Byte), UnframeRkeyPayload(buffer).ok
               PROVE  FrameRkeyPayload(UnframeRkeyPayload(buffer).bytes)
                         = Succeeded(buffer)
    BY DEF OnlyFrames
  <1> DEFINE n == Len(buffer)
             p == SubSeq(buffer, 5, n)
             h == <<buffer[1], buffer[2], buffer[3], buffer[4]>>
  <1>1. n \in Nat
    BY LenProperties
  <1>2. ~(n < 4) /\ FromLeBytes(buffer) = n - 4
    BY DEF UnframeRkeyPayload, Failed
  <1>3. UnframeRkeyPayload(buffer) = Succeeded(p)
    BY <1>2 DEF UnframeRkeyPayload
  <1>4. /\ buffer[1] \in Byte /\ buffer[2] \in Byte /\ buffer[3] \in Byte
        /\ buffer[4] \in Byte
    <2>1. 1 \in 1 .. n /\ 2 \in 1 .. n /\ 3 \in 1 .. n /\ 4 \in 1 .. n
      BY <1>1, <1>2
    <2> QED BY <2>1, ElementOfSeq
  <1>5. n - 4 = Word(buffer[1], buffer[2], buffer[3], buffer[4])
    BY <1>2 DEF FromLeBytes, Word
  <1>6. n - 4 < U32Mod /\ ToLeBytes(n - 4) = h
    <2>1. /\ Word(buffer[1], buffer[2], buffer[3], buffer[4]) < U32Mod
          /\ ToLeBytes(Word(buffer[1], buffer[2], buffer[3], buffer[4])) = h
      BY <1>4, WordBytes, Zenon
    <2> QED BY <1>5, <2>1, Zenon
  <1>7. /\ h \in Seq(Byte) /\ Len(h) = 4
        /\ \A i \in 1 .. 4 : h[i] = buffer[i]
    BY <1>4
  <1> HIDE DEF h
  <1>8. p \in Seq(Byte) /\ Len(p) = n - 4 /\ h \o p = buffer
    <2>1. PICK m \in Nat : n = 4 + m
      <3>1. n - 4 \in Nat /\ n = 4 + (n - 4)
        BY <1>1, <1>2
      <3> QED BY <3>1
    <2>2. Len(buffer) = 4 + m
      BY <2>1
    <2>3. /\ SubSeq(buffer, 5, 4 + m) \in Seq(Byte)
          /\ Len(SubSeq(buffer, 5, 4 + m)) = m
          /\ h \o SubSeq(buffer, 5, 4 + m) = buffer
      BY <1>7, <2>2, HeaderRest
    <2> QED BY <2>1, <2>3
  <1> HIDE DEF p
  <1>9. UnframeRkeyPayload(buffer).bytes = p
    BY <1>3 DEF Succeeded
  <1>10. ~(Len(p) >= U32Mod)
    BY <1>1, <1>6, <1>8, ModNat
  <1> QED BY <1>6, <1>8, <1>9, <1>10 DEF FrameRkeyPayload

----------------------------------------------------------------------------
(* Enumerations.                                                           *)

\* A thread mode comes back, but for the unknown one, which is passed to UCX as
\* the multi-threaded one.
LEMMA ThreadModeRoundTrip ==
    ASSUME NEW m \in ThreadMode
    PROVE  /\ ThreadModeToFfi(m) \in 0 .. 2
           /\ ThreadModeFromFfi(ThreadModeToFfi(m))
                 = IF m = "unknown" THEN "multi" ELSE m
  BY DEF ThreadMode, ThreadModeToFfi, ThreadModeFromFfi

LEMMA MemoryTypeRoundTrip ==
    ASSUME NEW t \in MemoryType
    PROVE  /\ MemoryTypeToFfi(t) \in FfiMemoryType
           /\ MemoryTypeFromFfi(MemoryTypeToFfi(t)) = t
  <1>1. DOMAIN MemoryTypes = 1 .. 9
    BY DEF MemoryTypes
  <1>2. CASE t = "unknown"
    BY <1>2 DEF MemoryTypeToFfi, MemoryTypeFromFfi, FfiMemoryType
  <1>3. CASE t # "unknown"
    <2>1. \E i \in DOMAIN MemoryTypes : MemoryTypes[i] = t
      BY <1>3 DEF MemoryType
    <2> DEFINE i == CHOOSE j \in DOMAIN MemoryTypes : MemoryTypes[j] = t
    <2>2. i \in DOMAIN MemoryTypes /\ MemoryTypes[i] = t
      BY <2>1
    <2>3. MemoryTypeToFfi(t) = i - 1
      BY <1>3 DEF MemoryTypeToFfi
    <2> HIDE DEF i
    <2>4. i - 1 \in 0 .. 8 /\ (i - 1) + 1 = i
      BY <1>1, <2>2
    <2> QED BY <2>2, <2>3, <2>4 DEF MemoryTypeFromFfi, FfiMemoryType
  <1> QED BY <1>2, <1>3

----------------------------------------------------------------------------
(* Datatypes and socket addresses.                                         *)

\* Every element size there is room for reaches UCX in a contiguous datatype, and
\* is never taken for the I/O vector datatype: dt_make_contig shifts nothing out.
THEOREM ContigSizesSurvive == ContigExact
  <1> SUFFICES ASSUME NEW size \in 0 .. (U64Mod \div ClassMod) - 1
               PROVE  /\ DtClass(DtMakeContig(size)) = UCP_DATATYPE_CONTIG
                      /\ DtSize(DtMakeContig(size)) = size
                      /\ DtMakeContig(size) # DtMakeIov
    BY DEF ContigExact
  <1>1. PICK w \in Nat : w = U64Mod
    <2>1. U64Mod \in Nat
      BY ModNat DEF U64Mod
    <2> QED BY <2>1
  <1>2. size \in Nat /\ size * 8 \in Nat /\ size * 8 < w
    BY <1>1 DEF ClassMod
  <1>3. (size * 8) % w = size * 8
    BY <1>2
  <1>4. DtMakeContig(size) = size * 8
    BY <1>1, <1>2, <1>3 DEF DtMakeContig, ClassMod, UCP_DATATYPE_CONTIG
  <1>5. (size * 8) % 8 = 0 /\ (size * 8) \div 8 = size /\ size * 8 # 2
    BY <1>2
  <1> QED BY <1>4, <1>5 DEF DtClass, DtSize, ClassMod, UCP_DATATYPE_CONTIG,
          DtMakeIov, UCP_DATATYPE_IOV

LEMMA ReversedFour ==
    ASSUME NEW a, NEW b, NEW c, NEW d
    PROVE  Reversed(<<a, b, c, d>>) = <<d, c, b, a>>
  <1>1. DOMAIN <<a, b, c, d>> = 1 .. 4 /\ Len(<<a, b, c, d>>) = 4
    OBVIOUS
  <1>2. Reversed(<<a, b, c, d>>) = [i \in 1 .. 4 |-> <<a, b, c, d>>[5 - i]]
    BY <1>1 DEF Reversed
  <1>3. \A i \in 1 .. 4 : <<a, b, c, d>>[5 - i] = <<d, c, b, a>>[i]
    OBVIOUS
  <1> QED BY <1>2, <1>3

\* A port is two digits; swapped, and swapped back.
LEMMA SwappedPort ==
    ASSUME NEW en \in Endian, NEW port \in 0 .. U16Mod - 1
    PROVE  /\ Stored16(en, Swapped16(en, port)) = <<port \div ByteMod, port % ByteMod>>
           /\ Swapped16(en, Swapped16(en, port)) = port
  <1> DEFINE h == port \div ByteMod
             l == port % ByteMod
  <1>1. port \in Nat /\ port < ByteMod * ByteMod
    BY ModNat DEF U16Mod
  <1>2. /\ h \in Nat /\ h < ByteMod /\ l \in Byte
        /\ port = l + ByteMod * h
    BY <1>1, DivMod, DivBound, ByteModAssumption
  <1>3. h \in Byte /\ l \in Nat
    BY <1>2, ByteModAssumption DEF Byte
  <1> DEFINE x == h + ByteMod * l
  <1>4. x \in Nat /\ x \div ByteMod = l /\ x % ByteMod = h
    <2> HIDE DEF h, l
    <2> QED BY <1>3, DivModUnique
  <1>5. CASE en = "big"
    BY <1>5 DEF Stored16, Swapped16
  <1>6. CASE en = "little"
    <2>1. ByteMod * l + h = x /\ ByteMod * h + l = port
      <3> HIDE DEF h, l
      <3> QED BY <1>2, <1>3, ByteModAssumption
    <2>2. Swapped16(en, port) = x
      BY <1>6, <2>1 DEF Swapped16
    <2> HIDE DEF x
    <2>3. Stored16(en, x) = <<h, l>>
      BY <1>4, <1>6 DEF Stored16
    <2>4. Swapped16(en, x) = port
      BY <1>4, <1>6, <2>1 DEF Swapped16
    <2> QED BY <2>2, <2>3, <2>4
  <1> QED BY <1>5, <1>6 DEF Endian

\* An address is four bytes: stored as the integer made of them, they are in
\* memory in the order they had, and come back from it.
LEMMA AddressBytes ==
    ASSUME NEW en \in Endian, NEW octets \in [1 .. 4 -> Byte]
    PROVE  /\ Stored32(en, Loaded32(en, octets)) = octets
           /\ Reversed(ToLeBytes(Swapped32(en, Loaded32(en, octets)))) = octets
  <1>1. PICK a \in Byte, b \in Byte, c \in Byte, d \in Byte : octets = <<a, b, c, d>>
    <2>1. octets[1] \in Byte /\ octets[2] \in Byte /\ octets[3] \in Byte
          /\ octets[4] \in Byte
      OBVIOUS
    <2>2. octets = <<octets[1], octets[2], octets[3], octets[4]>>
      OBVIOUS
    <2> QED BY <2>1, <2>2
  <1>2. /\ FromLeBytes(<<a, b, c, d>>) = Word(a, b, c, d)
        /\ FromLeBytes(<<d, c, b, a>>) = Word(d, c, b, a)
    BY DEF FromLeBytes, Word
  <1>3. /\ ToLeBytes(Word(a, b, c, d)) = <<a, b, c, d>>
        /\ ToLeBytes(Word(d, c, b, a)) = <<d, c, b, a>>
    BY WordBytes, Zenon
  <1>4. /\ Reversed(<<a, b, c, d>>) = <<d, c, b, a>>
        /\ Reversed(<<d, c, b, a>>) = <<a, b, c, d>>
    BY ReversedFour, Zenon
  <1>5. CASE en = "little"
    <2>1. Loaded32(en, octets) = Word(a, b, c, d)
      BY <1>1, <1>2, <1>5 DEF Loaded32
    <2>2. Stored32(en, Word(a, b, c, d)) = octets
      BY <1>1, <1>3, <1>5 DEF Stored32
    <2>3. Swapped32(en, Word(a, b, c, d)) = Word(d, c, b, a)
      BY <1>2, <1>3, <1>4, <1>5 DEF Swapped32
    <2> QED BY <1>1, <1>3, <1>4, <2>1, <2>2, <2>3, Zenon
  <1>6. CASE en = "big"
    <2>1. Loaded32(en, octets) = Word(d, c, b, a)
      BY <1>1, <1>2, <1>4, <1>6 DEF Loaded32
    <2>2. Stored32(en, Word(d, c, b, a)) = octets
      BY <1>1, <1>3, <1>4, <1>6 DEF Stored32
    <2>3. Swapped32(en, Word(d, c, b, a)) = Word(d, c, b, a)
      BY <1>6 DEF Swapped32
    <2> QED BY <1>1, <1>3, <1>4, <2>1, <2>2, <2>3, Zenon
  <1> QED BY <1>5, <1>6 DEF Endian

\* On machines of either byte order, what SockAddr::new stores is what the kernel
\* and UCX expect, and from_storage reads back the address that was set.
THEOREM AddressesSurvive == SocketAddrsSurvive
  <1> SUFFICES ASSUME NEW en \in Endian, NEW octets \in [1 .. 4 -> Byte],
                      NEW port \in 0 .. U16Mod - 1
               PROVE  LET v4 == SockAddrV4(en, octets, port)
                          v6 == SockAddrV6(en, octets, port, port, port)
                      IN  /\ Stored32(en, v4.addr) = octets
                          /\ Stored16(en, v4.port) = <<port \div ByteMod, port % ByteMod>>
                          /\ FromStorage(en, v4) = [family |-> "inet", octets |-> octets,
                                                    port |-> port]
                          /\ FromStorage(en, v6) = [family |-> "inet6", octets |-> octets,
                                                    port |-> port]
    BY DEF SocketAddrsSurvive
  <1> DEFINE v4 == SockAddrV4(en, octets, port)
             v6 == SockAddrV6(en, octets, port, port, port)
  <1>1. /\ v4.family = "inet" /\ v4.addr = Loaded32(en, octets)
        /\ v4.port = Swapped16(en, port)
        /\ v6.family = "inet6" /\ v6.addr = octets /\ v6.port = Swapped16(en, port)
    BY DEF SockAddrV4, SockAddrV6
  <1> HIDE DEF v4, v6
  <1>2. /\ Stored32(en, v4.addr) = octets
        /\ Reversed(ToLeBytes(Swapped32(en, v4.addr))) = octets
    BY <1>1, AddressBytes
  <1>3. /\ Stored16(en, v4.port) = <<port \div ByteMod, port % ByteMod>>
        /\ Swapped16(en, v4.port) = port /\ Swapped16(en, v6.port) = port
    BY <1>1, SwappedPort
  <1>4. FromStorage(en, v4) = [family |-> "inet", octets |-> octets, port |-> port]
    BY <1>1, <1>2, <1>3 DEF FromStorage
  <1>5. FromStorage(en, v6) = [family |-> "inet6", octets |-> octets, port |-> port]
    BY <1>1, <1>3 DEF FromStorage
  <1> QED BY <1>2, <1>3, <1>4, <1>5 DEF v4, v6
=============================================================================
