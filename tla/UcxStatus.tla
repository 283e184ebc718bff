------------------------------ MODULE UcxStatus ------------------------------
(***************************************************************************)
(* How the crate reads what UCX returns.  A non-blocking UCX call returns  *)
(* one machine word (ucs_status_ptr_t) that is an immediate status, an     *)
(* error, or the address of a request; status.rs tells the three apart and *)
(* decodes errors through a literal table.                                 *)
(*                                                                         *)
(* Words are the naturals below PtrMod (2^64 in the program; any modulus   *)
(* large enough to keep the statuses apart behaves the same, and the       *)
(* theorems hold for all of them).  A status is a small signed integer.    *)
(***************************************************************************)
EXTENDS Integers

CONSTANT PtrMod     \* the number of machine words

ASSUME PtrModAssumption == PtrMod \in Nat /\ PtrMod > 256

Word == 0 .. PtrMod - 1

UCS_OK           == 0
UCS_INPROGRESS   == 1
UCS_ERR_IO_ERROR == -3
UCS_ERR_INVALID_PARAM == -5
UCS_ERR_CANCELED == -16
UCS_ERR_LAST     == -100

\* The literals of the decoding table of status_from_ptr.
DecodeTable == (-25 .. -1) \cup {-40, -59, -60, -80, -89, -100}

\* The cast `status as isize as usize`.
AsWord(s) == IF s < 0 THEN PtrMod + s ELSE s

\* The cast `ptr as isize`.  The code narrows the result to i32, which keeps
\* the value of every word that passes status_ptr_is_err.
AsSigned(p) == IF 2 * p >= PtrMod THEN p - PtrMod ELSE p

----------------------------------------------------------------------------
(* Decoding.                                                               *)

\* Mutant of StatusPtrIsErr: `>` for `>=`, so UCS_ERR_LAST passes for an address.
StatusPtrIsErrStrict(p) == p > AsWord(UCS_ERR_LAST)

StatusPtrIsErr(p) == p >= AsWord(UCS_ERR_LAST)

StatusFromPtr(p) ==
    IF AsSigned(p) \in DecodeTable THEN AsSigned(p) ELSE UCS_ERR_LAST

\* Err(status), Ok(None) or Ok(Some(request)).
StatusPtrToResult(p) ==
    IF StatusPtrIsErr(p)
    THEN [tag |-> "err", status |-> StatusFromPtr(p), handle |-> 0]
    ELSE IF p <= UCS_INPROGRESS
    THEN [tag |-> "none", status |-> UCS_OK, handle |-> 0]
    ELSE [tag |-> "request", status |-> UCS_OK, handle |-> p]

\* status_to_result for a plain ucs_status_t: only negative values are errors.
StatusToResult(s) == IF s < 0 THEN "err" ELSE "ok"

\* The tail of Request::check_finished: a plain status is cast to a status
\* pointer, classified and decoded.
CheckStatus(s) ==
    IF StatusPtrIsErr(AsWord(s))
    THEN [tag |-> "err", status |-> StatusFromPtr(AsWord(s))]
    ELSE [tag |-> IF s = UCS_OK THEN "true" ELSE "false", status |-> UCS_OK]
=============================================================================
