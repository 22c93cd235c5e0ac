-------------------------------- MODULE Errno --------------------------------
(***************************************************************************)
(* src/os/unix/ngx_errno.c: where the texts of errors come from.  Builds   *)
(* with strerrordesc_np() ask it each time ("np", the build selected by    *)
(* objs/ngx_auto_config.h).  The others copy the texts at startup into a   *)
(* table, because strerror() must not be called in a signal handler, after *)
(* having found out which numbers are errors:                              *)
(*   "nerr"  : 0 up to NGX_SYS_NERR, which is known;                       *)
(*   "large" : those around EPERM that strerror() knows;                   *)
(*   "guess" : 0 up to the last that strerror() knows.                     *)
(*                                                                         *)
(* In the second half of the file three names are misspelt (mxg in line    *)
(* 140, len in 147, mgs in 305), so that it does not compile; it is        *)
(* translated with msg, msg->len and msg in their places.                  *)
(***************************************************************************)
EXTENDS Integers, Sequences, SequencesExt

CONSTANTS
  ErrorTables,   \* the builds: "np", "nerr", "large", "guess"
  strerror,      \* for each number: [text, einval]; the text may be NoText
  NoText,        \* a NULL pointer
  UnknownError,  \* the text "Unknown error"
  NGX_SYS_NERR,
  EPERM,         \* of the "large" build
  Reach          \* how far errors are searched: 1000 in the code

Numbers == DOMAIN strerror

CStrings == Seq(1..255)   \* the bytes before the NUL

ASSUME ErrnoAssumption ==
  /\ ErrorTables \subseteq {"np", "nerr", "large", "guess"}
  /\ strerror \in [Numbers -> [text : {NoText} \cup CStrings, einval : BOOLEAN]]
  /\ UnknownError \in CStrings
  /\ Numbers \subseteq Nat
  /\ {NGX_SYS_NERR, EPERM, Reach} \subseteq Nat
  /\ 0..(NGX_SYS_NERR - 1) \cup 0..(EPERM + Reach - 1) \subseteq Numbers
  /\ EPERM > Reach

VARIABLES
  table,            \* which build this is
  setup,            \* "range", "list", "copy", "failed", "over", or "done"
  ngx_first_error, ngx_last_error,
  ngx_sys_errlist,  \* the texts written so far, by number less ngx_first_error
  wanted            \* len: the bytes the last malloc() was asked for

errnoVars == <<table, setup, ngx_first_error, ngx_last_error, ngx_sys_errlist, wanted>>

Unset == <<-1>>   \* an entry malloc() gave and nobody wrote: any bytes

ErrnoInit ==
  /\ table \in ErrorTables
  /\ setup = IF table = "np" THEN "done" ELSE "range"
  /\ ngx_first_error = 0 /\ ngx_last_error = 0
  /\ ngx_sys_errlist = <<>> /\ wanted = 0

-----------------------------------------------------------------------------
\* strerror() has three ways to say that it does not know a number.
Known(e) ==
  /\ ~strerror[e].einval
  /\ strerror[e].text # NoText
  /\ ~IsPrefix(UnknownError, strerror[e].text)

\* The first and the last error known among some numbers, as sets of one.
FirstKnown(S) == {e \in S : Known(e) /\ \A k \in S : Known(k) => e <= k}
LastKnown(S)  == {e \in S : Known(e) /\ \A k \in S : Known(k) => k <= e}

\* The numbers that are tried.
Below == (EPERM - Reach + 1)..EPERM
Above == EPERM..(EPERM + Reach - 1)

\* Both bounds are 0 before the search.
OrZero(S) == IF S = {} THEN {0} ELSE S

After_Last(e) == e
After(e) == e + 1

\* The numbers of the table are those from ngx_first_error to the one before
\* ngx_last_error.
FindRange ==
  /\ setup = "range" /\ setup' = "list"
  /\ \/ table = "nerr"  /\ ngx_first_error' = 0 /\ ngx_last_error' = NGX_SYS_NERR
     \/ /\ table = "large"
        /\ ngx_first_error' \in OrZero(FirstKnown(Below))
        /\ ngx_last_error' \in OrZero({After(e) : e \in LastKnown(Above)})
     \/ /\ table = "guess" /\ ngx_first_error' = 0
        /\ ngx_last_error' \in OrZero({After(e) : e \in LastKnown(0..(Reach - 1))})
  /\ UNCHANGED <<table, ngx_sys_errlist, wanted>>

Listed == ngx_last_error - ngx_first_error   \* the entries of the table

AllocList ==
  /\ setup = "list"
  /\ wanted' = Listed * 16   \* sizeof(ngx_str_t)
  /\ setup' \in {"copy", "failed"}
  /\ UNCHANGED <<table, ngx_first_error, ngx_last_error, ngx_sys_errlist>>

\* One round of the loop over the table.  A text is copied into memory of its
\* own, which may not be had.
CopyText ==
  LET text == strerror[ngx_first_error + Len(ngx_sys_errlist)].text IN
  /\ setup = "copy" /\ Len(ngx_sys_errlist) < Listed
  /\ \/ /\ text = NoText
        /\ ngx_sys_errlist' = Append(ngx_sys_errlist, UnknownError)
        /\ UNCHANGED <<setup, wanted>>
     \/ /\ text # NoText /\ wanted' = Len(text)
        /\ ngx_sys_errlist' = Append(ngx_sys_errlist, text)
        /\ UNCHANGED setup
     \/ /\ text # NoText /\ wanted' = Len(text)
        /\ setup' = "failed" /\ UNCHANGED ngx_sys_errlist
  /\ UNCHANGED <<table, ngx_first_error, ngx_last_error>>

InitDone ==
  /\ setup = "copy" /\ Len(ngx_sys_errlist) = Listed
  /\ setup' = "done"
  /\ UNCHANGED <<table, ngx_first_error, ngx_last_error, ngx_sys_errlist, wanted>>

ngx_strerror_init == FindRange \/ AllocList \/ CopyText \/ InitDone

-----------------------------------------------------------------------------
\* The text ngx_strerror() takes for an error, before it is clipped.
Looked(e) ==
  IF table = "np"
  THEN IF Known(e) THEN strerror[e].text ELSE UnknownError
  ELSE IF e < ngx_first_error \/ e >= ngx_last_error THEN UnknownError
  ELSE IF e - ngx_first_error < Len(ngx_sys_errlist)
  THEN ngx_sys_errlist[e - ngx_first_error + 1] ELSE Unset

-----------------------------------------------------------------------------
\* The numbers a build must know if strerror() does.
Searched ==
  CASE table = "np"    -> Numbers
    [] table = "nerr"  -> 0..(NGX_SYS_NERR - 1)
    [] table = "large" -> Below \cup Above
    [] table = "guess" -> 0..(Reach - 1)

\* What an error may be called: an unknown one has the plain text or one of
\* strerror()'s own, which says it is unknown too.
Texts(e) ==
  IF Known(e) /\ e \in Searched THEN {strerror[e].text}
  ELSE {UnknownError} \cup ({strerror[e].text} \ {NoText})

=============================================================================
