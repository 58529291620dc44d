-------------------------------- MODULE Tty --------------------------------
(***************************************************************************)
(* Terminal input, dev/tty.c: the keyboard interrupt puts characters into  *)
(* the input queue of the active tty, and a thread in dev_tty_read waits   *)
(* for them with interrupts on, so that the interrupt falls between any    *)
(* two of its steps.  Each tty has one reader: the shell reads tty0, the   *)
(* init process reads tty1.                                                *)
(*                                                                         *)
(* ICANON is tested on c_iflag, where its bit is that of ICRNL, and nothing*)
(* changes the flags: TTYKBD_ANSI is always canonical.  The echo on the    *)
(* screen is not modelled.                                                 *)
(***************************************************************************)
EXTENDS Integers, SequencesExt, FiniteSetsExt

CONSTANTS
    Ttys,           \* minor numbers, switched to by F1, F2, ...
    MAX_INPUT,      \* 512 in the code
    Keys,           \* what may be typed: some of "x", "nl", "bs"
    Modes,          \* keyboard modes in use: some of "ANSI", "RAW"
    BufLens,        \* buffer sizes of the readers
    MaxWraps,       \* bound: how often an input queue's start wraps
    MaxGiven        \* bound: characters after which a reader reads no more

ASSUME TtyAssumption ==
    /\ MAX_INPUT \in Nat /\ MAX_INPUT >= 2
    /\ Keys \subseteq {"x", "nl", "bs"}
    /\ "ANSI" \in Modes /\ Modes \subseteq {"ANSI", "RAW"}
    /\ BufLens \subseteq Nat \ {0}
    /\ MaxWraps \in Nat /\ MaxGiven \in Nat

VARIABLES
    theActiveTTY,
    inpq,       \* tty_inpq: [start, end, buf]; pushed at start, popped at end
    kbmode,     \* tty_kbmode
    reader,     \* the thread in dev_tty_read: [pc, mode, len, n]
    typed,      \* characters accepted and not erased, in order, per tty
    given,      \* characters handed to the reader, in order, per tty
    wraps,      \* how often start has wrapped, per tty
    fault       \* a memcpy of the reader has run away

vars == <<theActiveTTY, inpq, kbmode, reader, typed, given, wraps, fault>>

-----------------------------------------------------------------------------
(* The input queue *)

Slots == 0 .. MAX_INPUT - 1

\* The number of characters in the queue, and the one at a position in it.
Count(q) == (q.start - q.end) % MAX_INPUT
At(q, i) == q.buf[(q.end + i) % MAX_INPUT]
Content(q) == [i \in 1 .. Count(q) |-> At(q, i - 1)]

\* The MAX_INPUT - start of the wrapped case should be MAX_INPUT - end.
tty_inpq_size(q) ==
    IF q.start < q.end THEN (MAX_INPUT - q.start) + q.end ELSE q.start - q.end

tty_inpq_strchr(q, c) ==
    LET found == {i \in 0 .. Count(q) - 1 : At(q, i) = c}
    IN  IF found = {} THEN -1 ELSE Min(found)

\* Mutant: the end of the buffer counts as full wherever end is.
CanPush_Linear(q) == IF q.start < q.end THEN q.start + 2 < q.end
                                        ELSE q.start + 1 # MAX_INPUT

\* May a character be pushed?
CanPush(q) == IF q.start < q.end
              THEN q.start + 2 < q.end
              ELSE ~(q.start + 1 = MAX_INPUT /\ q.end = 0)


\* Pushing a character writes it before the test for a full queue.
tty_inpq_push(q, c) ==
    LET written == [q EXCEPT !.buf[q.start] = c]
    IN  IF CanPush(q) THEN [written EXCEPT !.start = (@ + 1) % MAX_INPUT]
        ELSE IF q.start < q.end THEN q ELSE written

\* Mutant: start is not brought back into the buffer.
tty_inpq_unpush_NoWrap(q) == [q EXCEPT !.start = @ - 1]

tty_inpq_unpush(q) == [q EXCEPT !.start = (@ - 1) % MAX_INPUT]

-----------------------------------------------------------------------------
(* The keyboard interrupt *)

Push(t, c) ==
    /\ inpq' = [inpq EXCEPT ![t] = tty_inpq_push(@, c)]
    /\ typed' = IF CanPush(inpq[t]) THEN [typed EXCEPT ![t] = Append(@, c)]
                                    ELSE typed
    /\ wraps' = [wraps EXCEPT ![t] =
                   @ + (IF inpq'[t].start < inpq[t].start THEN 1 ELSE 0)]

Erase(t) ==
    IF inpq[t].start = inpq[t].end THEN UNCHANGED <<inpq, typed, wraps>>
    ELSE /\ inpq' = [inpq EXCEPT ![t] = tty_inpq_unpush(@)]
         /\ typed' = [typed EXCEPT ![t] = SubSeq(@, 1, Len(@) - 1)]
         /\ UNCHANGED wraps

\* A key other than F1 to F8.
tty_keyboard_handler(c) ==
    LET t == theActiveTTY
    IN  /\ ~fault
        /\ IF kbmode[t] = "ANSI" /\ c = "bs" THEN Erase(t) ELSE Push(t, c)
        /\ wraps'[t] <= MaxWraps
        /\ UNCHANGED <<theActiveTTY, kbmode, reader, given, fault>>

tty_switch(t) ==
    /\ ~fault
    /\ theActiveTTY' = t
    /\ UNCHANGED <<inpq, kbmode, reader, typed, given, wraps, fault>>

-----------------------------------------------------------------------------
(* The reader *)

NotReading == [pc |-> "idle", mode |-> "ANSI", len |-> 0, n |-> 0]

\* KDSKBMODE
dev_tty_ioctl(t, mode) ==
    /\ ~fault
    /\ reader[t] = NotReading
    /\ kbmode' = [kbmode EXCEPT ![t] = mode]
    /\ UNCHANGED <<theActiveTTY, inpq, reader, typed, given, wraps, fault>>

dev_tty_read(t, buflen) ==
    /\ ~fault
    /\ reader[t] = NotReading
    /\ Len(given[t]) < MaxGiven
    /\ reader' = [reader EXCEPT ![t] =
                    [pc |-> "wait", mode |-> kbmode[t], len |-> buflen, n |-> 0]]
    /\ UNCHANGED <<theActiveTTY, inpq, kbmode, typed, given, wraps, fault>>

\* Mutant: the newline is not counted.
Available_NoNewline(t) ==
    IF reader[t].mode = "RAW" THEN tty_inpq_size(inpq[t])
                              ELSE tty_inpq_strchr(inpq[t], "nl")

\* What the reader would pop: a line in canonical mode, anything in raw mode.
Available(t) ==
    IF reader[t].mode = "RAW" THEN tty_inpq_size(inpq[t])
                              ELSE tty_inpq_strchr(inpq[t], "nl") + 1

\* Mutant: the reader's buffer is not considered.
StopWaiting_NoLimit(t) ==
    /\ ~fault
    /\ reader[t].pc = "wait"
    /\ Available(t) >= 1
    /\ reader' = [reader EXCEPT ![t].pc = "pop", ![t].n = Available(t)]
    /\ UNCHANGED <<theActiveTTY, inpq, kbmode, typed, given, wraps, fault>>

\* The waiting loop ends.  While there is nothing to serve it halts, and any
\* interrupt makes it look again.
StopWaiting(t) ==
    /\ ~fault
    /\ reader[t].pc = "wait"
    /\ Available(t) >= 1
    /\ reader' = [reader EXCEPT ![t].pc = "pop",
                                ![t].n = Min({Available(t), reader[t].len})]
    /\ UNCHANGED <<theActiveTTY, inpq, kbmode, typed, given, wraps, fault>>

\* tty_inpq_pop up to its memcpy: how much is copied.  In the straight case a
\* length above what is there gives end - start, which is negative and wraps.
Popped(q, n) ==
    IF q.end < q.start THEN (IF n > q.start - q.end THEN q.end - q.start ELSE n)
                       ELSE Min({n, Count(q)})

tty_inpq_pop_length(t) ==
    /\ ~fault
    /\ reader[t].pc = "pop"
    /\ reader' = IF inpq[t].start = inpq[t].end
                 THEN [reader EXCEPT ![t] = NotReading]
                 ELSE [reader EXCEPT ![t].n = Popped(inpq[t], @),
                          ![t].pc = IF inpq[t].end < inpq[t].start
                                    THEN "copy" ELSE "copy_wrapped"]
    /\ UNCHANGED <<theActiveTTY, inpq, kbmode, typed, given, wraps, fault>>

Give(t, n) == given' = [given EXCEPT ![t] =
                          @ \o [i \in 1 .. n |-> At(inpq[t], i - 1)]]

\* Mutant: end is moved by what was asked for, not by what was copied.
tty_inpq_pop_copy_Len(t) ==
    /\ ~fault
    /\ reader[t].pc = "copy"
    /\ Give(t, reader[t].n)
    /\ inpq' = [inpq EXCEPT ![t].end = (@ + reader[t].len) % MAX_INPUT]
    /\ reader' = [reader EXCEPT ![t] = NotReading]
    /\ UNCHANGED <<theActiveTTY, kbmode, typed, wraps, fault>>

\* Mutant: the reader goes on waiting with what it has read.
tty_inpq_pop_copy_Again(t) ==
    /\ ~fault
    /\ reader[t].pc = "copy"
    /\ Give(t, reader[t].n)
    /\ inpq' = [inpq EXCEPT ![t].end = @ + reader[t].n]
    /\ reader' = [reader EXCEPT ![t].pc = "wait"]
    /\ UNCHANGED <<theActiveTTY, kbmode, typed, wraps, fault>>

\* The straight copy.
tty_inpq_pop_copy(t) ==
    /\ ~fault
    /\ reader[t].pc = "copy"
    /\ IF reader[t].n < 0
       THEN fault' = TRUE /\ UNCHANGED <<inpq, reader, given>>
       ELSE /\ Give(t, reader[t].n)
            /\ inpq' = [inpq EXCEPT ![t].end = @ + reader[t].n]
            /\ reader' = [reader EXCEPT ![t] = NotReading]
            /\ UNCHANGED fault
    /\ UNCHANGED <<theActiveTTY, kbmode, typed, wraps>>

\* The copy in two parts.  The first takes all up to the end of the buffer;
\* the length of the second is negative, and wraps, if that is more than
\* what was asked for.  end goes to break_offset.
tty_inpq_pop_wrapped(t) ==
    LET break_offset == MAX_INPUT - inpq[t].end
    IN  /\ ~fault
        /\ reader[t].pc = "copy_wrapped"
        /\ IF reader[t].n < break_offset
           THEN fault' = TRUE /\ UNCHANGED <<inpq, reader, given>>
           ELSE /\ Give(t, reader[t].n)
                /\ inpq' = [inpq EXCEPT ![t].end = break_offset]
                /\ reader' = [reader EXCEPT ![t] = NotReading]
                /\ UNCHANGED fault
        /\ UNCHANGED <<theActiveTTY, kbmode, typed, wraps>>

-----------------------------------------------------------------------------
\* init_tty_family
Init ==
    /\ theActiveTTY \in Ttys
    /\ inpq = [t \in Ttys |-> [start |-> 0, end |-> 0, buf |-> [i \in Slots |-> "x"]]]
    /\ kbmode = [t \in Ttys |-> "ANSI"]
    /\ reader = [t \in Ttys |-> NotReading]
    /\ typed = [t \in Ttys |-> << >>]
    /\ given = [t \in Ttys |-> << >>]
    /\ wraps = [t \in Ttys |-> 0]
    /\ fault = FALSE

ReaderStep(t) ==
    \/ StopWaiting(t)
    \/ tty_inpq_pop_length(t)
    \/ tty_inpq_pop_copy(t)
    \/ tty_inpq_pop_wrapped(t)

Next ==
    \/ \E c \in Keys : tty_keyboard_handler(c)
    \/ \E t \in Ttys : tty_switch(t)
    \/ \E t \in Ttys, mode \in Modes : dev_tty_ioctl(t, mode)
    \/ \E t \in Ttys, buflen \in BufLens : dev_tty_read(t, buflen)
    \/ \E t \in Ttys : ReaderStep(t)

Spec == Init /\ [][Next]_vars

\* A reader is scheduled again and again, and the timer interrupt wakes it
\* from its halt.
FairSpec == Spec /\ \A t \in Ttys : WF_vars(ReaderStep(t))
-----------------------------------------------------------------------------
(* Properties *)

\* Queue indices stay in the buffer and a reader is where the code can be.
TypeOK ==
    /\ theActiveTTY \in Ttys
    /\ inpq \in [Ttys -> [start : Slots, end : Slots, buf : [Slots -> Keys \union {"x"}]]]
    /\ kbmode \in [Ttys -> Modes]
    /\ reader \in [Ttys -> [pc : {"idle", "wait", "pop", "copy", "copy_wrapped"},
                            mode : Modes, len : BufLens \union {0}, n : Int]]
    /\ typed \in [Ttys -> Seq(Keys)] /\ given \in [Ttys -> Seq(Keys \union {"x"})]
    /\ wraps \in [Ttys -> 0 .. MaxWraps]
    /\ fault \in BOOLEAN

\* tty.c:21, the queue is a circular buffer: what the readers have been given
\* followed by what the queue holds is what was typed on that tty, with
\* nothing lost, repeated or out of order.
NothingLost == \A t \in Ttys : given[t] \o Content(inpq[t]) = typed[t]

\* A canonical read that has begun to copy serves a line: it ends with the
\* first newline of the queue, or it fills the buffer before that.
ServesALine ==
    \A t \in Ttys :
        reader[t].pc \in {"copy", "copy_wrapped"} /\ reader[t].mode = "ANSI" =>
            \/ reader[t].n = tty_inpq_strchr(inpq[t], "nl") + 1
            \/ /\ reader[t].n = reader[t].len
               /\ tty_inpq_strchr(inpq[t], "nl") >= reader[t].len

\* A reader's memcpy copies no more than its buffer takes and the queue holds.
CopiesFit ==
    /\ ~fault
    /\ \A t \in Ttys : reader[t].pc = "copy" =>
         reader[t].n \in 1 .. Min({reader[t].len, Count(inpq[t])})

\* A key is refused only when the queue has no more than one place left.
RefusesOnlyWhenFull ==
    [][\A c \in Keys : tty_keyboard_handler(c) /\ c # "bs" /\ typed' = typed
          => Count(inpq[theActiveTTY]) >= MAX_INPUT - 2]_vars

\* A read whose line is in the queue returns.
LineIsServed ==
    \A t \in Ttys :
        (reader[t].pc = "wait" /\ Available(t) >= 1) ~> reader[t] = NotReading

\* tty.c:459 marks the halt as the place where the queue may change: the line
\* that the reader has found is still there when it is popped.
FoundLineStays ==
    \A t \in Ttys : reader[t].pc = "pop" => Available(t) >= reader[t].n
=============================================================================
