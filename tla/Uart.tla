-------------------------------- MODULE Uart --------------------------------
(***************************************************************************)
(* The console's output (kernel/uart.c): a ring between writers and the      *)
(* transmitter, which interrupts when it has sent what it was given.         *)
(*                                                                          *)
(* The characters of one writer are numbered; a character in the ring is a   *)
(* pair of writer and number.  uart_tx_lock is free between two steps.       *)
(* uartinit() turns the FIFO on, so the holding register keeps what a sync   *)
(* echo, which takes no lock, and uartstart() write at the same time.        *)
(***************************************************************************)
EXTENDS Integers, Sequences, FiniteSets

CONSTANTS
  Writers, UART_TX_BUF_SIZE,
  Length,    \* characters that each writer writes
  MaxInput   \* bound: characters typed meanwhile

VARIABLES
  tx,      \* uart_tx_buf, uart_tx_w and uart_tx_r
  thr,     \* the transmit holding register
  irq,     \* an interrupt is pending
  intr,    \* how far the handler is
  writer,  \* each writer: how many characters it has put, and whether it sleeps
  wire,    \* history: the last number sent of each writer
  rx,      \* received characters that nobody has read
  typed    \* all received characters: the bound

uvars == <<tx, thr, irq, intr, writer, wire, rx, typed>>

Echo == <<"echo">>

Init ==
  /\ tx = [buf |-> [k \in 0..UART_TX_BUF_SIZE - 1 |-> Echo], w |-> 0, r |-> 0]
  /\ thr = <<>>
  /\ irq = FALSE
  /\ intr = "none"
  /\ writer = [p \in Writers |-> [i |-> 0, asleep |-> FALSE]]
  /\ wire = [p \in Writers |-> 0]
  /\ rx = 0 /\ typed = 0

\* Mutant: one character too many.
FullLate(t) == t.w > t.r + UART_TX_BUF_SIZE
Full(t) == t.w = t.r + UART_TX_BUF_SIZE

\* uartstart(), with ring t: a character goes to the register if it is idle,
\* and the writers that wait for room are woken.
\* Mutant: they are not.
StartSilently(t, ws) ==
  IF t.w = t.r \/ thr # <<>> THEN tx' = t /\ writer' = ws /\ UNCHANGED thr
  ELSE /\ thr' = <<t.buf[t.r % UART_TX_BUF_SIZE]>>
       /\ tx' = [t EXCEPT !.r = @ + 1]
       /\ writer' = ws
Start(t, ws) ==
  IF t.w = t.r \/ thr # <<>> THEN tx' = t /\ writer' = ws /\ UNCHANGED thr
  ELSE /\ thr' = <<t.buf[t.r % UART_TX_BUF_SIZE]>>
       /\ tx' = [t EXCEPT !.r = @ + 1]
       /\ writer' = [p \in Writers |-> [ws[p] EXCEPT !.asleep = FALSE]]

\* uartputc(), the next character of a write.
Put(p) ==
  LET i == writer[p].i + 1
      ws == [writer EXCEPT ![p].i = i]
      t == [tx EXCEPT !.buf[tx.w % UART_TX_BUF_SIZE] = <<p, i>>, !.w = @ + 1] IN
    /\ i <= Length /\ ~writer[p].asleep /\ ~Full(tx)
    /\ Start(t, ws)
    /\ UNCHANGED <<irq, intr, wire, rx, typed>>
PutSleep(p) ==
  /\ writer[p].i < Length /\ ~writer[p].asleep /\ Full(tx)
  /\ writer' = [writer EXCEPT ![p].asleep = TRUE]
  /\ UNCHANGED <<tx, thr, irq, intr, wire, rx, typed>>

\* The transmitter sends a character, and raises an interrupt when it is idle.
Sent ==
  /\ thr # <<>>
  /\ LET c == Head(thr) IN wire' = IF c = Echo THEN wire ELSE [wire EXCEPT ![c[1]] = c[2]]
  /\ thr' = Tail(thr) /\ irq' = (irq \/ thr' = <<>>)
  /\ UNCHANGED <<tx, intr, writer, rx, typed>>

\* Input arrives.
Receive ==
  /\ typed < MaxInput /\ typed' = typed + 1 /\ rx' = rx + 1 /\ irq' = TRUE
  /\ UNCHANGED <<tx, thr, intr, writer, wire>>

\* uartintr(): the interrupt is claimed, and completed at the end.  The input
\* is read first, and most of it echoed by uartputc_sync(), which waits for
\* the idle register.
Claim ==
  /\ irq /\ intr = "none"
  /\ irq' = FALSE /\ intr' = "input"
  /\ UNCHANGED <<tx, thr, writer, wire, rx, typed>>
GetChar ==
  /\ intr = "input" /\ rx > 0
  /\ rx' = rx - 1 /\ intr' \in {"input", "wait"}
  /\ UNCHANGED <<tx, thr, irq, writer, wire, typed>>
EchoWait ==
  /\ intr = "wait" /\ thr = <<>> /\ intr' = "write"
  /\ UNCHANGED <<tx, thr, irq, writer, wire, rx, typed>>
EchoWrite ==
  /\ intr = "write" /\ intr' = "input"
  /\ thr' = Append(thr, Echo)
  /\ UNCHANGED <<tx, irq, writer, wire, rx, typed>>
InputDone ==
  /\ intr = "input" /\ rx = 0 /\ intr' = "output"
  /\ UNCHANGED <<tx, thr, irq, writer, wire, rx, typed>>
\* Mutant: the handler forgets the ring.
OutputNever ==
  /\ intr = "output" /\ intr' = "none"
  /\ UNCHANGED <<tx, thr, irq, writer, wire, rx, typed>>
Output ==
  /\ intr = "output" /\ intr' = "none"
  /\ Start(tx, writer)
  /\ UNCHANGED <<irq, wire, rx, typed>>

Handler == Claim \/ GetChar \/ EchoWait \/ EchoWrite \/ InputDone \/ Output
Next ==
  \/ \E p \in Writers : Put(p) \/ PutSleep(p)
  \/ Sent \/ Receive \/ Handler

\* The transmitter always finishes, interrupts are delivered and handled, and
\* a writer that can run runs.
Fairness ==
  /\ WF_uvars(Sent) /\ WF_uvars(Handler)
  /\ \A p \in Writers : WF_uvars(Put(p) \/ PutSleep(p))
Spec == Init /\ [][Next]_uvars /\ Fairness

-----------------------------------------------------------------------------
TypeOK == tx.r <= tx.w /\ tx.w - tx.r <= UART_TX_BUF_SIZE /\ tx.w <= Length * Cardinality(Writers)

\* Every character is sent once and in order: what a writer has put and the
\* wire has not shown is in the register and the ring.
InOrder == \A p \in Writers :
  LET ring == [k \in 1..(tx.w - tx.r) |-> tx.buf[(tx.r + k - 1) % UART_TX_BUF_SIZE]]
      mine == SelectSeq(thr \o ring, LAMBDA c : c[1] = p) IN
    mine = [k \in 1..(writer[p].i - wire[p]) |-> <<p, wire[p] + k>>]

\* Characters in the ring are on their way: the register is busy, or an
\* interrupt is pending, or the handler has not come to the ring yet.
NeverStuck == tx.w # tx.r => thr # <<>> \/ irq \/ intr # "none"

\* A writer sleeps only while the ring is full.
NoLostWakeup == \A p \in Writers : writer[p].asleep => Full(tx)

\* All that is written is sent.
AllSent == \A p \in Writers : <>(wire[p] = Length)
=============================================================================
