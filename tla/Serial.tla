------------------------------- MODULE Serial -------------------------------
(***************************************************************************)
(* components/drivers/serial/serial.c: what the interrupts of a serial     *)
(* device receive into the software FIFO, byte by byte or by DMA, and the  *)
(* transfers by DMA that threads ask for and interrupts continue.          *)
(***************************************************************************)
EXTENDS Rings

CONSTANTS
    RxByte,      \* what can be received
    RxSize,      \* serial->config.bufsz
    RxMode,      \* how the device has been opened, a subset of {"int", "dma"}
    RxRead,      \* the lengths given to read
    TxWriter,    \* the threads that write by DMA
    TxNode,      \* the buffers they write
    TxDepth      \* the size of tx_dma->data_queue

ASSUME SerialAssumption ==
    RxSize \in Nat \ {0, 1} /\ RxMode \subseteq {"int", "dma"} /\ RxRead \subseteq Nat

\* fifo.put, fifo.get, fifo.full, fifo.buf   serial->serial_rx
\* fifo.mode                                 the open flag
\* fifo.dma                                  how many bytes the DMA controller has
\*                                           written that no interrupt has told of
\* fifo.call                                 the last call and its bytes
\* tx.queue        tx_dma->data_queue
\* tx.active       tx_dma->activated
\* tx.wire         the buffer that the DMA controller sends, if any
\* tx.pushed[t]    the buffer with which writer t is between its push and its
\*                 look at activated, if it is
VARIABLES fifo, tx

RxInit ==
    \E mode \in RxMode, b \in RxByte :
        fifo = [put |-> 0, get |-> 0, full |-> FALSE, mode |-> mode, dma |-> 0,
                buf |-> [i \in 0..RxSize - 1 |-> b], call |-> Gives("reset", << >>)]

TxInit ==
    tx = [queue |-> << >>, active |-> FALSE, wire |-> {},
          pushed |-> [t \in TxWriter |-> {}]]

-----------------------------------------------------------------------------
(* Reception.                                                              *)

\* _serial_fifo_calc_recved_len
RxLen(f) ==
    IF f.put = f.get THEN (IF f.full THEN RxSize ELSE 0)
    ELSE IF f.put > f.get THEN f.put - f.get ELSE RxSize - (f.get - f.put)

RxStored(f, bytes) == RingStored(f.buf, RxSize, f.put, bytes)
RxBytes(f, n) == RingBytes(f.buf, RxSize, f.get, n)

\* RT_SERIAL_EVENT_RX_IND, one turn of the loop: if the next position is the
\* read index, the oldest byte goes
RxIndication(byte) ==
    LET put  == (fifo.put + 1) % RxSize
        over == put = fifo.get
    IN  /\ fifo.mode = "int"
        /\ fifo' = [fifo EXCEPT !.buf = RxStored(fifo, <<byte>>), !.put = put,
                                !.get = IF over THEN (@ + 1) % RxSize ELSE @,
                                !.full = @ \/ over, !.call = Gives("force", <<byte>>)]

\* _serial_int_rx, one turn of the loop
RxIntRead ==
    /\ fifo.mode = "int" /\ RxLen(fifo) > 0
    /\ fifo' = [fifo EXCEPT !.get = (@ + 1) % RxSize, !.full = FALSE,
                            !.call = RingCall("take", 1, RxBytes(fifo, 1))]

\* mutant: a transfer that ends at the read index is not taken for an overrun
Overtakes_Late(f, n) ==
    IF f.get <= f.put THEN f.put + n >= RxSize /\ (f.put + n) % RxSize >= f.get
    ELSE f.put + n > f.get

\* rt_dma_recv_update_put_index: whether n bytes reach what has not been read
Overtakes(f, n) ==
    IF f.get <= f.put THEN f.put + n >= RxSize /\ (f.put + n) % RxSize >= f.get
    ELSE f.put + n >= f.get

\* The circular transfer of the DMA controller, which asks no index: it is a buffer
\* ahead of the interrupts at most, as they come at its middle and at its end.
RxDmaWrites(byte) ==
    /\ fifo.mode = "dma" /\ fifo.dma < RxSize
    /\ fifo' = [fifo EXCEPT !.buf[(fifo.put + fifo.dma) % RxSize] = byte, !.dma = @ + 1]

\* RT_SERIAL_EVENT_RX_DMADONE with n bytes, those that had come when the driver read
\* the controller's counter
RxDmaDone(n) ==
    LET put  == (fifo.put + n) % RxSize
        full == fifo.full \/ Overtakes(fifo, n)
    IN  /\ fifo.mode = "dma" /\ n <= fifo.dma
        /\ fifo' = [fifo EXCEPT !.put = put, !.full = full, !.get = IF full THEN put ELSE @,
                                !.dma = @ - n,
                                !.call = Gives("force", RingBytes(fifo.buf, RxSize, fifo.put, n))]

\* _serial_dma_rx and rt_dma_recv_update_get_index
RxDmaRead(length) ==
    LET n == Shorter(length, RxLen(fifo)) IN
    /\ fifo.mode = "dma"
    /\ fifo' = [fifo EXCEPT !.get = (@ + n) % RxSize, !.full = @ /\ n = 0,
                            !.call = RingCall("take", length, RxBytes(fifo, n))]

-----------------------------------------------------------------------------
(* Transmission by DMA.                                                    *)

\* _serial_dma_tx: the push, which waits while the queue is full
TxPush(t, node) ==
    /\ tx.pushed[t] = {} /\ Len(tx.queue) < TxDepth
    /\ tx' = [tx EXCEPT !.queue = Append(@, node), !.pushed[t] = {node}]

\* and the start of a transfer, of the caller's own buffer, if none is active
TxStart(t) ==
    /\ tx.pushed[t] # {}
    /\ tx' = [tx EXCEPT !.active = TRUE, !.pushed[t] = {},
                        !.wire = IF tx.active THEN @ ELSE tx.pushed[t]]

\* mutant: the interrupt leaves the next transfer to the next writer
TxDmaDone_Stops ==
    /\ tx.wire # {}
    /\ tx' = [tx EXCEPT !.queue = IF @ = << >> THEN @ ELSE Tail(@), !.active = FALSE,
                        !.wire = {}]

\* RT_SERIAL_EVENT_TX_DMADONE
TxDmaDone ==
    /\ tx.wire # {}
    /\ tx' = [tx EXCEPT !.queue = IF @ = << >> THEN @ ELSE Tail(@),
                        !.active = Len(tx.queue) > 1,
                        !.wire = IF Len(tx.queue) > 1 THEN {tx.queue[2]} ELSE {}]

RxNext ==
    \/ \E byte \in RxByte : RxIndication(byte)
    \/ RxIntRead
    \/ \E byte \in RxByte : RxDmaWrites(byte)
    \/ \E n \in 1..RxSize : RxDmaDone(n)
    \/ \E length \in RxRead : RxDmaRead(length)

TxNext ==
    \/ \E t \in TxWriter : TxStart(t) \/ \E node \in TxNode : TxPush(t, node)
    \/ TxDmaDone

RxSpec == RxInit /\ [][RxNext]_fifo
TxSpec == TxInit /\ [][TxNext]_tx

-----------------------------------------------------------------------------

RxContent == RxBytes(fifo, RxLen(fifo))

\* one place stays free when bytes come one by one
RxIntRing == INSTANCE AbstractRing WITH
    Capacity <- RxSize - 1, content <- RxContent, call <- fifo.call
RxDmaRing == INSTANCE AbstractRing WITH
    Capacity <- RxSize, content <- RxContent, call <- fifo.call

\* How many of the oldest bytes the controller has written over.
RxLost(f) == IF RxLen(f) + f.dma > RxSize THEN RxLen(f) + f.dma - RxSize ELSE 0

\* The controller writes a byte: over the oldest that it has left, if it has come
\* round to it, and else where nothing is.
RxInPlace ==
    /\ fifo'.dma = fifo.dma + 1 /\ fifo'.call = fifo.call
    /\ IF RxLost(fifo') = 0 THEN RxContent' = RxContent
       ELSE \E byte \in RxByte : RxContent' = [RxContent EXCEPT ![RxLost(fifo')] = byte]

\* What is received is read in order; when the reader is too slow the oldest
\* bytes are lost, and no more of them than must be, in either mode.  With DMA the
\* interrupt drops them later than the controller writes over them, and what is
\* there in between are the oldest bytes with new ones in the place of the first.
RxImplementsRing ==
    [][IF fifo.mode = "int" THEN RxIntRing!Next ELSE RxDmaRing!Next \/ RxInPlace]_fifo

\* What the code does not keep: a read takes no byte that has come over another,
\* since the read index is forced past those.
RxReadsOldest ==
    [][(\E length \in RxRead : RxDmaRead(length)) => RxLost(fifo) = 0]_fifo

\* A buffer in the queue is on its way: the controller works, and goes on from
\* its interrupt, or the thread that pushed it is about to start the transfer.
DmaNotIdle == tx.queue # << >> => tx.active \/ \E t \in TxWriter : tx.pushed[t] # {}

\* What the code does not keep: what the controller sends is the first buffer
\* of the queue, so that each is sent once and in order.
DmaSendsInOrder == tx.wire # {} => tx.queue # << >> /\ tx.wire = {tx.queue[1]}
=============================================================================
