---------------------------- MODULE RkeyFraming ----------------------------
(***************************************************************************)
(* The wire format of a packed remote key: four bytes of length, the least *)
(* significant first, and the payload UCX made (rma/remote_key.rs, and     *)
(* PackedRkeyBuffer in memh.rs).                                           *)
(***************************************************************************)
EXTENDS Bytes

Failed == [ok |-> FALSE, bytes |-> << >>]
Succeeded(b) == [ok |-> TRUE, bytes |-> b]

\* frame_rkey_payload: u32::try_from fails on a length that does not fit.
FrameRkeyPayload(payload) ==
    IF Len(payload) >= U32Mod THEN Failed
    ELSE Succeeded(ToLeBytes(Len(payload)) \o payload)

\* unframe_rkey_payload
UnframeRkeyPayload(buffer) ==
    IF Len(buffer) < 4 \/ FromLeBytes(buffer) # Len(buffer) - 4 THEN Failed
    ELSE Succeeded(SubSeq(buffer, 5, Len(buffer)))

----------------------------------------------------------------------------
(* What a reader of the wire format can rely on.                           *)

\* Unframing undoes framing.
RoundTrips(payload) ==
    FrameRkeyPayload(payload).ok =>
        UnframeRkeyPayload(FrameRkeyPayload(payload).bytes) = Succeeded(payload)

\* Nothing but a frame is unframed: a truncated, an extended or otherwise
\* foreign buffer is refused.
OnlyFrames(buffer) ==
    UnframeRkeyPayload(buffer).ok =>
        FrameRkeyPayload(UnframeRkeyPayload(buffer).bytes) = Succeeded(buffer)
=============================================================================
