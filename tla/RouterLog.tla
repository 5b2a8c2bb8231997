------------------------------ MODULE RouterLog ------------------------------
(***************************************************************************)
(* The binary log of the router and of the application (_log.c), written   *)
(* by several threads, in several calls of fwrite per entry, through a     *)
(* buffer that is lost when the process is killed; and what log_decode.c   *)
(* reads in it later.  Runs of the program append to one file.             *)
(*                                                                         *)
(* The buffer is flushed after every entry, so it never fills by itself.   *)
(***************************************************************************)
EXTENDS Integers, Sequences, SequencesExt, FiniteSets

CONSTANTS
  Threads,   \* the threads of the program that log
  Entries,   \* what they log: records [id, args, buf]
  CallMax,   \* bound: entries logged
  StartMax   \* bound: runs of the program

LOG_SEND_TO_LINK   == 1
LOG_SEND_TO_APP    == 2
LOG_SEND_TO_ROUTER == 3
LOG_DV_SET         == 4
LOG_TEST_NUMBER    == 5
LOG_PACKET_DROP    == 6

WithBuffer  == {LOG_SEND_TO_LINK, LOG_SEND_TO_APP, LOG_SEND_TO_ROUTER}
MAGIC_BEGIN == <<202, 254, 222, 173>>
MAGIC_END   == <<176, 186, 176, 186>>

\* How many bytes follow the kind of an entry, besides its buffer.
ArgCount(id) ==
  CASE id \in {LOG_SEND_TO_LINK, LOG_TEST_NUMBER, LOG_PACKET_DROP} -> 1
    [] id = LOG_DV_SET -> 3
    [] OTHER -> 0

Byte == 0 .. 255

\* The arguments of the log functions are uint8_t, the size of buf as well.
ASSUME LogAssumption ==
  /\ IsFiniteSet(Threads)
  /\ \A e \in Entries :
       /\ e \in [id : LOG_SEND_TO_LINK .. LOG_PACKET_DROP, args : Seq(Byte), buf : Seq(Byte)]
       /\ Len(e.args) = ArgCount(e.id) /\ Len(e.buf) \in Byte
       /\ e.id \notin WithBuffer => e.buf = <<>>

Mark(magic) == [id |-> magic[1], args |-> <<>>, buf |-> <<>>]
Idle        == [id |-> 0, args |-> <<>>, buf |-> <<>>]

VARIABLES
  file, buffer,   \* the bytes on disk, and those in the buffer of log_file
  open,           \* log_file is open
  writers,        \* the threads that log in this run
  call, todo,     \* per thread: the entry it logs, the pieces still to write
  calls, starts,  \* counters for the bounds
  complete,       \* history: entries in the buffer,
  logged,         \*   on disk, up to the first one torn,
  whole,          \*   whether none has been torn,
  split           \*   and whether the file ends within an entry
vars == <<file, buffer, open, writers, call, todo, calls, starts, complete, logged, whole, split>>

-----------------------------------------------------------------------------
(* Writing. *)

Single(bytes) == [i \in 1 .. Len(bytes) |-> <<bytes[i]>>]

\* Mutation: the size comes before the link.
PiecesSizeFirst(e) ==
  <<<<e.id>>>> \o
  (IF e.id \in WithBuffer THEN <<<<Len(e.buf)>>>> \o Single(e.args) \o <<e.buf>> ELSE Single(e.args))

\* What one fwrite each writes: the kind of entry, its bytes, its buffer.
Pieces(e) ==
  <<<<e.id>>>> \o Single(e.args) \o
  (IF e.id \in WithBuffer THEN <<<<Len(e.buf)>>, e.buf>> ELSE <<>>)

\* A part of its entry is written.
Partial(t) == call[t] # Idle /\ todo[t] \notin {<<>>, Pieces(call[t])}

Init ==
  /\ file = <<>> /\ buffer = <<>> /\ open = FALSE /\ writers \in SUBSET Threads \ {{}}
  /\ call = [t \in Threads |-> Idle] /\ todo = [t \in Threads |-> <<>>]
  /\ calls = 0 /\ starts = 0
  /\ complete = <<>> /\ logged = <<>> /\ whole = TRUE /\ split = FALSE

\* fopen() and log_begin().
Begin ==
  /\ ~open /\ starts < StartMax
  /\ open' = TRUE /\ starts' = starts + 1
  /\ file' = file \o MAGIC_BEGIN
  /\ logged' = IF whole THEN Append(logged, Mark(MAGIC_BEGIN)) ELSE logged
  /\ UNCHANGED <<buffer, writers, call, todo, calls, complete, whole, split>>

Call(t) ==
  /\ open /\ call[t] = Idle /\ calls < CallMax
  /\ \E e \in Entries :
       /\ call' = [call EXCEPT ![t] = e]
       /\ todo' = [todo EXCEPT ![t] = Pieces(e)]
  /\ calls' = calls + 1
  /\ UNCHANGED <<file, buffer, open, writers, starts, complete, logged, whole, split>>

Flushed ==
  /\ file' = file \o buffer /\ buffer' = <<>>
  /\ logged' = logged \o complete /\ complete' = <<>>
  /\ split' = \E t \in Threads : Partial(t)

\* Mutation: the file is not buffered.
WriteThrough(t) ==
  /\ call[t] # Idle /\ todo[t] # <<>>
  /\ file' = file \o buffer \o Head(todo[t]) /\ buffer' = <<>>
  /\ todo' = [todo EXCEPT ![t] = Tail(@)]
  /\ whole' = (whole /\ \A u \in Threads \ {t} : ~Partial(u))
  /\ complete' = IF whole' /\ Len(todo[t]) = 1 THEN Append(complete, call[t]) ELSE complete
  /\ UNCHANGED <<open, writers, call, calls, starts, logged, split>>

\* log_write().  It tears an entry of which another thread wrote a part.
Write(t) ==
  /\ call[t] # Idle /\ todo[t] # <<>>
  /\ buffer' = buffer \o Head(todo[t])
  /\ todo' = [todo EXCEPT ![t] = Tail(@)]
  /\ whole' = (whole /\ \A u \in Threads \ {t} : ~Partial(u))
  /\ complete' = IF whole' /\ Len(todo[t]) = 1 THEN Append(complete, call[t]) ELSE complete
  /\ UNCHANGED <<file, open, writers, call, calls, starts, logged, split>>

\* log_flush(), after the last piece.
Flush(t) ==
  /\ call[t] # Idle /\ todo[t] = <<>>
  /\ call' = [call EXCEPT ![t] = Idle]
  /\ Flushed
  /\ UNCHANGED <<open, writers, todo, calls, starts, whole>>

\* The process is gone.
Ended ==
  /\ open' = FALSE
  /\ call' = [t \in Threads |-> Idle] /\ todo' = [t \in Threads |-> <<>>]
  /\ UNCHANGED <<writers, calls, starts>>

\* log_end(), after all threads have been joined.
End ==
  /\ open /\ \A t \in Threads : call[t] = Idle
  /\ Ended
  /\ file' = file \o MAGIC_END
  /\ logged' = IF whole THEN Append(logged, Mark(MAGIC_END)) ELSE logged
  /\ UNCHANGED <<buffer, complete, whole, split>>

\* A thread that is not logging fails an expect(): exit() flushes the buffer.
Exit ==
  /\ open /\ \E t \in writers : call[t] = Idle
  /\ Ended /\ Flushed
  /\ whole' = (whole /\ \A t \in Threads : ~Partial(t))

\* A signal: the buffer is lost.
Kill ==
  /\ open
  /\ Ended
  /\ buffer' = <<>> /\ complete' = <<>>
  /\ whole' = (whole /\ ~split) /\ split' = FALSE
  /\ UNCHANGED <<file, logged>>

Next ==
  \/ Begin \/ End \/ Exit \/ Kill
  \/ \E t \in writers : Call(t) \/ Write(t) \/ Flush(t)

Spec == Init /\ [][Next]_vars

-----------------------------------------------------------------------------
(* Reading: print_log(). *)

IsMark(bytes, p, magic) ==
  p + Len(magic) - 1 <= Len(bytes) /\ SubSeq(bytes, p, p + Len(magic) - 1) = magic

\* The entry at p; reading beyond the end of the file yields anything.
EntryAt(bytes, p) ==
  LET args == p + ArgCount(bytes[p])              \* the last argument
      size == IF bytes[p] \notin WithBuffer THEN 0
              ELSE IF args < Len(bytes) THEN bytes[args + 1] ELSE Len(bytes)
      last == IF bytes[p] \in WithBuffer THEN args + 1 + size ELSE args IN
  IF IsMark(bytes, p, MAGIC_BEGIN) THEN [next |-> p + 4, entry |-> Mark(MAGIC_BEGIN)]
  ELSE IF IsMark(bytes, p, MAGIC_END) THEN [next |-> p + 4, entry |-> Mark(MAGIC_END)]
  ELSE [next  |-> last + 1,
        entry |-> IF last > Len(bytes) THEN Idle
                  ELSE [id |-> bytes[p], args |-> SubSeq(bytes, p + 1, args),
                        buf |-> SubSeq(bytes, last - size + 1, last)]]

Decoded(bytes) ==
  LET From[p \in Nat \ {0}] ==
        IF p > Len(bytes) THEN <<>>
        ELSE <<EntryAt(bytes, p).entry>> \o From[EntryAt(bytes, p).next]
  IN From[1]

-----------------------------------------------------------------------------
\* Whatever was logged before the first torn entry is read back, entry by
\* entry; nothing else is read as long as none is torn; and a program with
\* one logging thread, as the application is, never tears one, even when it
\* is killed while it logs (log_decode.c: "We assume there are no partial
\* log entries").
ReadsBack ==
  /\ IsPrefix(logged, Decoded(file))
  /\ whole /\ ~split => Decoded(file) = logged
  /\ Cardinality(writers) = 1 => whole
=============================================================================
