------------------------------ MODULE UartLine ------------------------------
(***************************************************************************)
(* Both directions of a serial line.  They have their own buffers and DMA  *)
(* channels, and the error callback (Core/Src/cppmain.cpp), which stops    *)
(* both and starts the receiving one again.                                *)
(***************************************************************************)
EXTENDS UartReceiver, UartTransmitter

CONSTANT
    Duplex  \* bound: FALSE if one direction only is used in a behaviour

ASSUME LineAssumption == Duplex \in BOOLEAN

allVars == <<vars, txVars>>

LineInit == Init /\ TxInit

\* HAL_UART_ErrorCallback.
ErrorCallback ==
    /\ ErrorEvent
    /\ StopTransmission

Receiving ==
    \/ Byte /\ (Duplex \/ transmitted = 0)
    \/ FallIdle
    \/ Interrupt
    \/ Task
    \/ ReceiveLine

Transmitting ==
    TxNext /\ (Duplex \/ sent = <<>>)

LineNext ==
    \/ Receiving /\ UNCHANGED txVars
    \/ Transmitting /\ UNCHANGED vars
    \/ ErrorCallback

LineSpec == LineInit /\ [][LineNext]_allVars

\* Tasks and handlers run; a line on which nothing is sent is idle.
FairLine ==
    /\ LineSpec
    /\ WF_allVars(Interrupt /\ UNCHANGED txVars)
    /\ WF_allVars(Task /\ UNCHANGED txVars)
    /\ WF_allVars(FallIdle /\ UNCHANGED txVars)
    /\ WF_allVars(SendToStream /\ UNCHANGED vars)
    /\ WF_allVars(TransmitTask /\ UNCHANGED vars)
    /\ WF_allVars(Uart /\ UNCHANGED vars)
=============================================================================
