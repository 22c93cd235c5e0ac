-------------------------------- MODULE Log --------------------------------
(***************************************************************************)
(* src/core/ngx_log.c: ngx_log_stderr, which builds one line in a buffer   *)
(* of NGX_MAX_ERROR_STR bytes and writes it to the console, and            *)
(* ngx_log_init, which names and opens the error log and falls back to     *)
(* stderr.  Error texts are those of Errno: ngx_strerror_init comes before *)
(* everything else, and a program in which it fails says so and stops.     *)
(* ngx_log_error_core is unfinished in the code and left out.              *)
(*                                                                         *)
(* `errstr' is what was written into the buffer (the code's p is its end)  *)
(* and, once pc is "written", the line on the console; `asked' holds the   *)
(* arguments of ngx_log_init with their defaults, `name' is the path that  *)
(* is opened, `block' the size of its malloc'ed copy (0: none), and `fd'   *)
(* what ngx_log_file.fd is (none: ngx_log_init returned NULL).             *)
(***************************************************************************)
EXTENDS Format, Errno

CONSTANTS NGX_MAX_ERROR_STR,  \* the size of the buffer
          Formats,            \* the formats other code passes to ngx_log_stderr
          Errors,             \* the values of errno
          ENOMEM,             \* the errno of a failed malloc()
          Banner,             \* "nginx: "
          OpenMessage,        \* "[alert] could not open ...", up to the name of the file
          OpenEnd,            \* the text after it
          MallocMessage,      \* "malloc("
          MallocEnd,          \* ") failed ("
          PrefixArgs, LogArgs,     \* the arguments of ngx_log_init, NoText among them
          NGX_PREFIX, NGX_ERROR_LOG_PATH

ASSUME LogAssumption ==
  /\ NGX_MAX_ERROR_STR \in Nat /\ NGX_MAX_ERROR_STR >= Len(Banner) + 50
  /\ Errors \cup {ENOMEM} \subseteq Numbers \ {0}
  /\ Formats \subseteq Seq(AllDirectives)
  /\ strerror[ENOMEM].text # NoText
  /\ {Banner, OpenMessage, OpenEnd, MallocMessage, MallocEnd, NGX_PREFIX, NGX_ERROR_LOG_PATH}
       \cup ((PrefixArgs \cup LogArgs) \ {NoText}) \subseteq CStrings

\* The integers and the doubles of the formats, the errors and the sizes that
\* are allocated for their texts are those of the machine.
ASSUME NumbersAssumption ==
  /\ \A fmt \in Formats : \A k \in 1..Len(fmt) : Representable(fmt[k])
  /\ \A e \in Numbers :
       /\ 16 * (e + 1) < 2^Bits
       /\ strerror[e].text # NoText => Len(strerror[e].text) < 2^Bits

VARIABLES pc, args, errstr, asked, name, block, fd
vars == <<errnoVars, pc, args, errstr, asked, name, block, fd>>

LF    == 10
Slash == 47
Literal(t) == [k \in DOMAIN t |-> Plain(t[k])]

Lines  == [err : Errors \cup {0}, fmt : Formats]
NoLine == [err |-> 0, fmt |-> <<>>]
NotAsked == [dir |-> <<>>, log |-> <<>>]
OpenFailed(err) ==
  [err |-> err, fmt |-> Literal(OpenMessage) \o <<Str(name, NoLength, 0)>>
                      \o Literal(OpenEnd)]

Init ==
  /\ ErrnoInit
  /\ pc = "idle" /\ args = NoLine /\ errstr = <<>>
  /\ asked = NotAsked
  /\ name = <<>> /\ block = 0 /\ fd = "unset"

-----------------------------------------------------------------------------
(***************************************************************************)
(* ngx_log_stderr                                                          *)
(***************************************************************************)
CallStderr ==
  /\ pc = "idle" /\ setup = "done"
  /\ args' \in Lines
  /\ pc' = "print"
  /\ UNCHANGED <<errnoVars, errstr, asked, name, block, fd>>

PrintMessage ==
  /\ pc = "print"
  /\ errstr' = ngx_vslprintf(Banner, NGX_MAX_ERROR_STR, args.fmt)
  /\ pc' = IF args.err # 0 THEN "errno" ELSE "linefeed"
  /\ UNCHANGED <<errnoVars, args, asked, name, block, fd>>

\* Clips the description to what is left of the buffer.
ngx_strerror(err, buf, last) ==
  buf \o SubSeq(Looked(err), 1, Least(Room(buf, last), Len(Looked(err))))

Errno(n) == Literal(<<Space, 40>>) \o <<Number(n, FALSE, FALSE, Space, 0, 0)>>
            \o Literal(<<58, Space>>)

\* What precedes the error is kept; the error gets the rest of the buffer.
Shortened_NoReserve(buf, last) == buf

Shortened(buf, last) ==
  IF Len(buf) > last - 50 THEN SubSeq(buf, 1, last - 50) \o <<Dot, Dot, Dot>> ELSE buf

ngx_log_errno(buf, last, err) ==
  LET text == ngx_strerror(err, ngx_vslprintf(Shortened(buf, last), last, Errno(err)), last)
  IN  IF Len(text) < last THEN Append(text, 41) ELSE text

AddErrno ==
  /\ pc = "errno"
  /\ errstr' = ngx_log_errno(errstr, NGX_MAX_ERROR_STR, args.err)
  /\ pc' = "linefeed"
  /\ UNCHANGED <<errnoVars, args, asked, name, block, fd>>

\* The last byte is given up for the line feed when there is no other.
Fed(buf, last) == Append(SubSeq(buf, 1, Least(Len(buf), last - 1)), LF)

Write ==
  /\ pc = "linefeed"
  /\ errstr' = Fed(errstr, NGX_MAX_ERROR_STR)
  /\ pc' = "written"
  /\ UNCHANGED <<errnoVars, args, asked, name, block, fd>>

\* The buffer and the arguments were on the stack; ngx_log_init goes on when
\* it was the one that wrote the line.
ReturnStderr ==
  /\ pc = "written"
  /\ pc' = IF fd = "invalid" THEN "failed" ELSE "idle"
  /\ args' = NoLine /\ errstr' = <<>>
  /\ UNCHANGED <<errnoVars, asked, name, block, fd>>

-----------------------------------------------------------------------------
(***************************************************************************)
(* ngx_strerror_init                                                       *)
(***************************************************************************)
MallocFailed(err) ==
  [err |-> err,
   fmt |-> Literal(MallocMessage) \o <<Number(wanted, TRUE, FALSE, Space, 0, 0)>>
           \o Literal(MallocEnd) \o <<Number(ENOMEM, FALSE, FALSE, Space, 0, 0)>>
           \o Literal(<<58, Space>>) \o <<Str(strerror[ENOMEM].text, NoLength, 0), Plain(41)>>]

SetupFailed_WithErrno ==
  /\ setup = "failed" /\ setup' = "over"
  /\ args' = MallocFailed(ENOMEM) /\ pc' = "print"
  /\ UNCHANGED <<table, ngx_first_error, ngx_last_error, ngx_sys_errlist, wanted,
                 errstr, asked, name, block, fd>>

\* ngx_strerror() cannot be used: the text is taken from strerror() and the
\* number is part of the message.
SetupFailed ==
  /\ setup = "failed" /\ setup' = "over"
  /\ args' = MallocFailed(0) /\ pc' = "print"
  /\ UNCHANGED <<table, ngx_first_error, ngx_last_error, ngx_sys_errlist, wanted,
                 errstr, asked, name, block, fd>>

Setup == ngx_strerror_init /\ UNCHANGED <<pc, args, errstr, asked, name, block, fd>>

\* The caller stops the program.
Stopped == setup = "over" /\ pc = "idle" /\ UNCHANGED vars

-----------------------------------------------------------------------------
(***************************************************************************)
(* ngx_log_init, called once at startup                                    *)
(***************************************************************************)
\* ngx_cpystrn: at most n - 1 bytes, then a NUL.
ngx_cpystrn(dst, src, n) == dst \o SubSeq(src, 1, Least(n - 1, Len(src))) \o <<Nul>>

WithSeparator_Always(prefix) == Append(prefix, Slash)

WithSeparator(prefix) ==
  IF prefix[Len(prefix)] = Slash THEN prefix ELSE Append(prefix, Slash)

\* The opened path is what precedes the NUL of the copy.
FullName(prefix, log) ==
  Bytes(ngx_cpystrn(WithSeparator(prefix), log, Len(log) + 1), NoLength)

GivenOr(arg, default) == IF arg = NoText THEN default ELSE arg

InitLog(prefix, errorLog) ==
  LET log == GivenOr(errorLog, NGX_ERROR_LOG_PATH)
      dir == GivenOr(prefix, NGX_PREFIX)
  IN
  /\ pc = "idle" /\ setup = "done" /\ fd = "unset"
  /\ UNCHANGED <<errnoVars, args, errstr>>
  /\ \/ /\ log = <<>>
        /\ fd' = "stderr" /\ UNCHANGED <<pc, asked, name, block>>
     \/ /\ log # <<>> /\ (log[1] = Slash \/ dir = <<>>)
        /\ name' = log /\ asked' = [dir |-> dir, log |-> log]
        /\ pc' = "open" /\ UNCHANGED <<block, fd>>
     \/ /\ log # <<>> /\ log[1] # Slash /\ dir # <<>>
        /\ name' = FullName(dir, log) /\ asked' = [dir |-> dir, log |-> log]
        /\ block' = Len(dir) + Len(log) + 2
        /\ pc' = "open" /\ UNCHANGED fd
     \/ /\ log # <<>> /\ log[1] # Slash /\ dir # <<>>     \* malloc fails
        /\ fd' = "none" /\ UNCHANGED <<pc, asked, name, block>>

OpenFile ==
  /\ pc = "open"
  /\ \/ /\ fd' = "file" /\ pc' = "opened" /\ UNCHANGED args
     \/ /\ fd' = "invalid"
        /\ \E err \in Errors : args' = OpenFailed(err)
        /\ pc' = "print"
  /\ UNCHANGED <<errnoVars, errstr, asked, name, block>>

Fallback_Forgotten ==
  /\ pc = "failed"
  /\ pc' = "opened"
  /\ UNCHANGED <<errnoVars, args, errstr, asked, name, block, fd>>

Fallback ==
  /\ pc = "failed"
  /\ fd' = "stderr" /\ pc' = "opened"
  /\ UNCHANGED <<errnoVars, args, errstr, asked, name, block>>

FreeName ==
  /\ pc = "opened"
  /\ block' = 0 /\ pc' = "idle"
  /\ name' = <<>> /\ asked' = NotAsked
  /\ UNCHANGED <<errnoVars, args, errstr, fd>>

Next ==
  \/ Setup \/ SetupFailed \/ Stopped
  \/ CallStderr \/ PrintMessage \/ AddErrno \/ Write \/ ReturnStderr
  \/ \E prefix \in PrefixArgs, errorLog \in LogArgs : InitLog(prefix, errorLog)
  \/ OpenFile \/ Fallback \/ FreeName

Spec == Init /\ [][Next]_vars

-----------------------------------------------------------------------------
(***************************************************************************)
(* Properties                                                              *)
(***************************************************************************)
First(n, s) == SubSeq(s, 1, Least(n, Len(s)))
Message     == Banner \o RenderedText(args.fmt)
ErrorText(t) ==
  <<Space, 40>> \o Numeral(args.err, 0) \o <<58, Space>> \o t \o <<41>>

(***************************************************************************)
(* Nothing is ever written beyond the buffer: every directive, sign, point *)
(* and bracket that is stored without a check of its own follows a check   *)
(* that covers it.                                                         *)
(***************************************************************************)
InBuffer == Len(errstr) <= NGX_MAX_ERROR_STR

(***************************************************************************)
(* A line without an error is the rendered message up to the size of the   *)
(* buffer and a line feed, whatever directive the end of the buffer cuts:  *)
(* the byte a clipped hexadecimal string leaves free, and a following      *)
(* directive fills, is the one the line feed takes.                        *)
(***************************************************************************)
LineFaithful ==
  pc = "written" /\ args.err = 0 =>
    errstr = Append(First(NGX_MAX_ERROR_STR - 1, Message), LF)

(***************************************************************************)
(* However long the message, an error that fits the 50 bytes ngx_log_errno *)
(* reserves (three dots, its text and the line feed) is in the line whole; *)
(* only what is in the way of the reserve is replaced by the dots.         *)
(***************************************************************************)
ErrorKept ==
  /\ pc = "written" /\ args.err # 0
  /\ \A t \in Texts(args.err) : Len(ErrorText(t)) + 1 <= 47
  =>
    LET room  == NGX_MAX_ERROR_STR - 50
        front == IF Len(Message) <= room THEN Message
                 ELSE First(room, Message) \o <<Dot, Dot, Dot>>
    IN  \E t \in Texts(args.err) : errstr = front \o ErrorText(t) \o <<LF>>

(***************************************************************************)
(* Once startup is over, every error the system knows has its own text,    *)
(* the first and the last and those behind a gap of unknown numbers        *)
(* included, and no unknown number has an error's.                         *)
(***************************************************************************)
ErrorsDescribed ==
  setup = "done" /\ pc = "idle" => \A e \in Numbers : Looked(e) \in Texts(e)

(***************************************************************************)
(* An entry of ngx_sys_errlist is never read before it was written: not    *)
(* even the report that the table could not be made reaches into it.       *)
(***************************************************************************)
EntriesReadAreWritten == pc = "errno" => Looked(args.err) # Unset

(***************************************************************************)
(* The file that is opened is the one asked for, a relative name being     *)
(* taken below the prefix with one separator added only where it is        *)
(* missing, and the copy fits the memory allocated for it.                 *)
(***************************************************************************)
LogFileNamed ==
  pc = "open" =>
    IF asked.log[1] = Slash \/ asked.dir = <<>> THEN name = asked.log /\ block = 0
    ELSE LET seam == Len(name) - Len(asked.log)
         IN  /\ IsPrefix(asked.dir, name) /\ IsSuffix(asked.log, name)
             /\ name[seam] = Slash
             /\ seam = Len(asked.dir) + (IF Last(asked.dir) = Slash THEN 0 ELSE 1)
             /\ Len(name) + 1 <= block

(***************************************************************************)
(* ngx_log_init returns with a descriptor that can be written to, having   *)
(* freed the name it built; until then the name the failure message prints *)
(* is still allocated.                                                     *)
(***************************************************************************)
LogUsable ==
  /\ pc = "idle" => fd # "invalid" /\ block = 0
  /\ fd = "invalid" /\ pc = "print" => block # 0 \/ name = asked.log

=============================================================================
