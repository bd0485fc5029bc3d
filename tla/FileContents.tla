---------------------------- MODULE FileContents ----------------------------
(***************************************************************************)
(* What regular files promise to the programs that use them: a file is a   *)
(* sequence of bytes, a write changes the bytes it names and nothing else, *)
(* a read returns the bytes that are there.                                *)
(*                                                                         *)
(* Where portfs promises little, so does this specification: bytes nobody  *)
(* wrote, behind the old end of a file that grew, are arbitrary; a byte    *)
(* may be a Hole, which cannot be read; a write that fails may leave its   *)
(* first bytes behind.  FileIO implements it.                              *)
(***************************************************************************)
EXTENDS Integers, Sequences

CONSTANTS
    File,       \* the regular files
    Byte,       \* the values of a byte
    Hole,       \* stands for a byte of a file that has no place
    Data,       \* bound: the byte sequences callers write
    Offsets     \* bound: the offsets, counts and sizes callers use

VARIABLES
    exists,     \* the files there are
    content,    \* their bytes
    request,    \* the call in progress
    reply       \* what the last call returned, until the next begins

contentsVars == <<exists, content, request, reply>>

NoRequest == [op |-> "none", file |-> 0, pos |-> 0, append |-> FALSE,
              data |-> <<>>, count |-> 0]
Reply(status, bytes) == [status |-> status, bytes |-> bytes]
NoReply == Reply("none", <<>>)

ContentsInit ==
    /\ exists = {}
    /\ content = [f \in File |-> <<>>]
    /\ request = NoRequest
    /\ reply = NoReply

-----------------------------------------------------------------------------
\* Sequences of bytes; offset o is element o + 1.

Least(a, b) == IF a < b THEN a ELSE b
Most(a, b) == IF a > b THEN a ELSE b

\* The bytes of s from pos on, at most count of them.
Part(s, pos, count) == SubSeq(s, pos + 1, Least(Len(s), pos + count))

\* s with data at pos; between its old end and pos come the bytes of gap.
Patched(s, pos, data, gap) ==
    [k \in 1 .. Most(Len(s), pos + Len(data)) |->
        IF pos < k /\ k <= pos + Len(data) THEN data[k - pos]
        ELSE IF k <= Len(s) THEN s[k]
        ELSE gap[k]]

HasHole(s) == \E k \in DOMAIN s : s[k] = Hole

\* Any bytes for the offsets from the end of s to n.
Gaps(s, n) == [(Len(s) + 1) .. n -> Byte \cup {Hole}]

-----------------------------------------------------------------------------
AtRest == request.op = "none"
Enter == AtRest /\ reply' = NoReply

\* Creation, removal and truncation to nothing.
Replace(f, there, bytes) ==
    /\ Enter
    /\ exists' = there
    /\ content' = [content EXCEPT ![f] = bytes]
    /\ UNCHANGED request

New(f) == f \notin exists /\ Replace(f, exists \cup {f}, <<>>)
Gone(f) == f \in exists /\ Replace(f, exists \ {f}, <<>>)
Emptied(f) == f \in exists /\ Replace(f, exists, <<>>)

Start(r) ==
    /\ Enter
    /\ r.file \in exists
    /\ request' = r
    /\ UNCHANGED <<exists, content>>

AskWrite(f, pos, data) ==
    Start([NoRequest EXCEPT !.op = "write", !.file = f, !.pos = pos, !.data = data])

\* O_APPEND: the offset is the end of the file.
AskAppend(f, data) ==
    Start([NoRequest EXCEPT !.op = "write", !.file = f, !.append = TRUE,
                            !.pos = Len(content[f]), !.data = data])

AskRead(f, pos, count) ==
    Start([NoRequest EXCEPT !.op = "read", !.file = f, !.pos = pos, !.count = count])

AskGrow(f, size) ==
    /\ size > Len(content[f])
    /\ Start([NoRequest EXCEPT !.op = "grow", !.file = f, !.count = size])

-----------------------------------------------------------------------------
Own == content[request.file]

End(status, bytes) ==
    /\ request' = NoRequest
    /\ reply' = Reply(status, bytes)
    /\ UNCHANGED exists

\* The first n bytes of a write are there, as far as they lie inside the file.
Landed(n) ==
    SubSeq(Patched(Own, request.pos, SubSeq(request.data, 1, n),
                   [k \in 1 .. request.pos |-> Hole]),
           1, Len(Own))

WriteSome ==
    /\ request.op = "write"
    /\ UNCHANGED <<exists, request, reply>>
    /\ \E n \in 1 .. Len(request.data) :
          content' = [content EXCEPT ![request.file] = Landed(n)]

EndWrite ==
    /\ request.op = "write"
    /\ End("ok", request.data)
    /\ \E gap \in Gaps(Own, request.pos) :
          content' = [content EXCEPT ![request.file] =
                        Patched(Own, request.pos, request.data, gap)]

EndGrow ==
    /\ request.op = "grow"
    /\ End("ok", <<>>)
    /\ \E gap \in Gaps(Own, request.count) :
          content' = [content EXCEPT ![request.file] =
                        Patched(Own, request.count, <<>>, gap)]

EndRead ==
    /\ request.op = "read"
    /\ ~HasHole(Part(Own, request.pos, request.count))
    /\ End("ok", Part(Own, request.pos, request.count))
    /\ UNCHANGED content

\* A call fails for want of space, because of a byte without a place, because
\* the write starts behind the end, or because the machine below fails it.
MayFail(status) ==
    \/ status = "fault"
    \/ status = "ENOSPC" /\ request.op \in {"write", "grow"}
    \/ /\ status = "EIO"
       /\ \/ request.op = "write" /\ (request.pos > Len(Own) \/ HasHole(Own))
          \/ request.op = "read" /\ HasHole(Part(Own, request.pos, request.count))

EndFailed ==
    /\ ~AtRest
    /\ \E status \in {"fault", "ENOSPC", "EIO"} :
          MayFail(status) /\ End(status, <<>>)
    /\ \E n \in 0 .. Len(request.data) :
          content' = [content EXCEPT ![request.file] = Landed(n)]

-----------------------------------------------------------------------------
ContentsNext ==
    \/ \E f \in File : New(f) \/ Gone(f) \/ Emptied(f)
    \/ \E f \in File, pos \in Offsets, data \in Data : AskWrite(f, pos, data)
    \/ \E f \in File, data \in Data : AskAppend(f, data)
    \/ \E f \in File, pos, count \in Offsets : AskRead(f, pos, count)
    \/ \E f \in File, size \in Offsets : AskGrow(f, size)
    \/ WriteSome \/ EndWrite \/ EndGrow \/ EndRead \/ EndFailed

\* A call in progress comes to an end.
ContentsEnds == WF_contentsVars(EndWrite \/ EndGrow \/ EndRead \/ EndFailed)

ContentsSafety == ContentsInit /\ [][ContentsNext]_contentsVars

ContentsSpec == ContentsSafety /\ ContentsEnds
=============================================================================
