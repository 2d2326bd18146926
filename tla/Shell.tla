------------------------------- MODULE Shell -------------------------------
(***************************************************************************)
(* The terminal on the USB port (Core/Src/Shell.cpp): one task that owns   *)
(* the screen, a queue of what has been typed and of what is to be shown,  *)
(* the interrupt that fills it, and the tasks that log (Tele/Log.hpp)      *)
(* through a sink that sends to the terminal.  The terminal task logs too: *)
(* it then sends to the queue that only it empties.                        *)
(*                                                                         *)
(* A string to be shown is a number of parts that fit an element, the last *)
(* of which may end a line.  The host and its screen are external: the top *)
(* row is the prompt's, output scrolls below it.  Nothing is known of      *)
(* where the cursor of a screen is at first, nor of what it has saved.     *)
(***************************************************************************)
EXTENDS Integers, Sequences

CONSTANTS
    Tasks,      \* the tasks that log
    QueueSize,  \* k_queue_size: 32
    ChunkSize,  \* QueueElement::max_sz: 32
    LineSize,   \* the line buffer: 80
    LogParts,   \* elements that a log message takes
    Inputs,     \* what the host sends in one packet
    MaxInputs,  \* bound: packets from the host
    MaxUnplugs  \* bound: times the host goes away

ASSUME ShellAssumption ==
    /\ {QueueSize, ChunkSize, LineSize, LogParts} \subseteq Nat \ {0}
    /\ Tasks \cap {"shell", "host"} = {}
    /\ Inputs \subseteq Seq({"a", "r", "del", "cr", "lf"})
    /\ MaxInputs \in Nat /\ MaxUnplugs \in Nat

VARIABLES
    queue,    \* m_queue_handle
    sending,  \* of each task, the strings it has still to send, and how far
              \* it is in the first
    todo,     \* what the terminal task has still to do for an element
    line,     \* the line buffer
    usb,      \* "off", "ready", or "busy" with a transfer
    cursor,   \* where the terminal writes, and where restoring it leads
    top,      \* what the top row shows
    shown,    \* of each task, the part shown last
    inputs, unplugs,
    \* history: the line being typed, the lines that have been and are not
    \* executed yet, and whether anything was dropped or did not fit
    typing, typed, lossy,
    \* history of the screen: whether the prompt has been begun on it, and
    \* whether a line end has been shown on it
    drawn, endShown

host == <<usb, inputs, unplugs>>
screen == <<cursor, top, shown, drawn, endShown>>
history == <<typing, typed, lossy>>
vars == <<queue, sending, todo, line, host, screen, history>>

Senders == Tasks \cup {"shell"}

Rows == {"top", "below"}
Cursors == [at : Rows, saved : Rows]

Init ==
    /\ queue = <<>>
    /\ sending = [t \in Senders |-> <<>>]
    /\ todo = <<>>
    /\ line = <<>>
    /\ usb = "off"
    /\ cursor \in Cursors
    /\ top = <<>>
    /\ shown = [t \in Senders |-> 0]
    /\ inputs = 0 /\ unplugs = 0
    /\ typing = <<>> /\ typed = <<>> /\ lossy = FALSE
    /\ drawn = FALSE /\ endShown = FALSE

-----------------------------------------------------------------------------
(* Sending to the queue.                                                   *)

\* A string that send_str is given: the elements it is cut into, the next of
\* them, and whether the last ends a line.
String(parts, ends) == [part |-> 1, parts |-> parts, ends |-> ends]
Message == String(LogParts, TRUE)

\* The element that is sent next.
Piece(t, string) ==
    [from |-> t, part |-> string.part,
     ends |-> string.ends /\ string.part = string.parts]

\* Mutant: the wait for room in the queue that has been commented out.
SendPartWaiting(t) ==
    /\ sending[t] # <<>>
    /\ Len(queue) < QueueSize
    /\ LET string == Head(sending[t])
       IN  /\ queue' = Append(queue, Piece(t, string))
           /\ sending' = [sending EXCEPT ![t] =
                  IF string.part = string.parts THEN Tail(@)
                  ELSE <<[string EXCEPT !.part = @ + 1]>> \o Tail(@)]
    /\ UNCHANGED <<todo, line, host, screen, history>>

\* Mutant: a part that finds no room is skipped.
SendPartSkipping(t) ==
    /\ sending[t] # <<>>
    /\ LET string == Head(sending[t])
       IN  /\ queue' = IF Len(queue) < QueueSize
                       THEN Append(queue, Piece(t, string))
                       ELSE queue
           /\ sending' = [sending EXCEPT ![t] =
                  IF string.part = string.parts THEN Tail(@)
                  ELSE <<[string EXCEPT !.part = @ + 1]>> \o Tail(@)]
    /\ UNCHANGED <<todo, line, host, screen, history>>

\* send_str, a round of its loop: without room the rest is given up.
SendPart(t) ==
    /\ sending[t] # <<>>
    /\ LET string == Head(sending[t])
           room == Len(queue) < QueueSize
       IN  /\ queue' = IF room
                       THEN Append(queue, Piece(t, string))
                       ELSE queue
           /\ sending' = [sending EXCEPT ![t] =
                  IF room /\ string.part < string.parts
                  THEN <<[string EXCEPT !.part = @ + 1]>> \o Tail(@)
                  ELSE Tail(@)]
    /\ UNCHANGED <<todo, line, host, screen, history>>

\* Logger::log, in the task that logs: the message is formatted and sent.
Log(t) ==
    /\ sending[t] = <<>>
    /\ sending' = [sending EXCEPT ![t] = <<Message>>]
    /\ UNCHANGED <<queue, todo, line, host, screen, history>>

\* isr_new_chars cuts what it is given into elements.
Chunks(chars) ==
    [k \in 1..((Len(chars) + ChunkSize - 1) \div ChunkSize) |->
        SubSeq(chars, (k - 1) * ChunkSize + 1,
               IF k * ChunkSize < Len(chars) THEN k * ChunkSize
               ELSE Len(chars))]

\* An element that finds no room is lost; those after it may find some, but
\* nobody takes any while the interrupt runs.
Receive(chars, long) ==
    LET room == QueueSize - Len(queue)
        chunks == Chunks(chars)
        taken == IF Len(chunks) <= room THEN Len(chunks) ELSE room
    IN  /\ queue' = queue \o [k \in 1..taken |->
                                 [from |-> "host", chars |-> chunks[k]]]
        /\ lossy' = (lossy \/ long \/ taken < Len(chunks))

-----------------------------------------------------------------------------
(* The line buffer.                                                        *)

Terminators == {"cr", "lf"}

\* Mutant: deleting is ignored.
NewCharKeeping(buffer, c) ==
    IF c \in Terminators THEN <<>>
    ELSE IF Len(buffer) = LineSize \/ c = "del" THEN buffer
    ELSE Append(buffer, c)

\* LineBuffer::new_char: what it leaves in the buffer.
NewChar(buffer, c) ==
    CASE c \in Terminators -> <<>>
      [] c = "del" -> IF buffer = <<>> THEN <<>>
                      ELSE SubSeq(buffer, 1, Len(buffer) - 1)
      [] OTHER -> IF Len(buffer) = LineSize THEN buffer ELSE Append(buffer, c)

\* terminal_line_callback: an empty line is no command, the others log a
\* message or a few.
Logs(command) ==
    IF command = <<>> THEN {<<>>}
    ELSE {<<Message>>, <<Message, Message>>}

\* input_line_callback: the prompt, the line, unless it is empty, and a line
\* end are sent, then the line is executed.
Echo(command) ==
    IF command = <<>> THEN <<>>
    ELSE <<String((Len(command) + ChunkSize - 1) \div ChunkSize, FALSE)>>
Callback(command) ==
    {<<String(1, FALSE)>> \o Echo(command) \o <<String(1, TRUE)>> \o logs :
        logs \in Logs(command)}

-----------------------------------------------------------------------------
(* The terminal task.                                                      *)

Do(what) == [do |-> what]
ClearPrompt == <<Do("restore")>>

\* Mutant: the cursor is saved when it is at the prompt's row already.
DisplayPromptLate ==
    <<Do("home"), Do("save"), Do("erase"), Do("prompt"), Do("line")>>

DisplayPrompt ==
    <<Do("save"), Do("home"), Do("erase"), Do("prompt"), Do("line")>>

\* What an element makes the task do: take characters, each of which may call
\* the callback, or show a part of a string.
Work(element) ==
    ClearPrompt \o
    (IF element.from = "host"
     THEN [k \in DOMAIN element.chars |->
              [do |-> "take", char |-> element.chars[k]]]
     ELSE <<[do |-> "show", from |-> element.from, part |-> element.part,
             ends |-> element.ends]>>)
    \o DisplayPrompt

ReceiveElement ==
    /\ todo = <<>>
    /\ queue # <<>>
    /\ todo' = Work(Head(queue))
    /\ queue' = Tail(queue)
    /\ UNCHANGED <<sending, line, host, screen, history>>

Now(what) == todo # <<>> /\ Head(todo).do = what /\ sending["shell"] = <<>>
Ends == Now("take") /\ Head(todo).char \in Terminators

\* A character goes into the line buffer.  The strings of the callback are
\* sent before the next one does.
TakeCharacter ==
    /\ Now("take")
    /\ line' = NewChar(line, Head(todo).char)
    /\ IF Ends
       THEN /\ line # <<"r">>
            /\ \E strings \in Callback(line) :
                  sending' = [sending EXCEPT !["shell"] = strings]
            /\ typed' = Tail(typed)
       ELSE UNCHANGED <<sending, typed>>
    /\ todo' = Tail(todo)
    /\ UNCHANGED <<queue, host, screen, typing, lossy>>

\* "restart" resets the board; the host sees it leave.  What is on its screen
\* is no prompt of this board's any more.
Restart ==
    /\ Ends
    /\ line = <<"r">>
    /\ queue' = <<>>
    /\ sending' = [t \in Senders |-> <<>>]
    /\ todo' = <<>>
    /\ line' = <<>>
    /\ usb' = "off"
    /\ typing' = <<>> /\ typed' = <<>>
    /\ drawn' = FALSE
    /\ UNCHANGED <<inputs, unplugs, cursor, top, shown, lossy, endShown>>

\* Where a part that is shown leaves the cursor: below, when it ends a line or
\* fills the one it is on.
RowAfter(sent) == IF sent.ends THEN {"below"} ELSE {cursor.at, "below"}

\* What the terminal shows when it is sent something.  What goes on below may
\* scroll the rows.
Shows == {"restore", "save", "home", "erase", "prompt", "line", "show"}
Display(sent) ==
    /\ CASE sent.do = "restore" -> cursor' = [cursor EXCEPT !.at = cursor.saved]
         [] sent.do = "save" -> cursor' = [cursor EXCEPT !.saved = cursor.at]
         [] sent.do = "home" -> cursor' = [cursor EXCEPT !.at = "top"]
         [] sent.do = "show" ->
                \E row \in RowAfter(sent) : cursor' = [cursor EXCEPT !.at = row]
         [] OTHER -> cursor' = cursor
    /\ CASE sent.do = "show" ->
                \/ top' = <<"garbled">>
                \/ cursor.at = "below" /\ top' = top
         [] sent.do = "erase" /\ cursor.at = "top" -> top' = <<>>
         [] sent.do = "prompt" /\ cursor.at = "top" ->
                top' = IF top = <<>> THEN <<">">> ELSE <<"garbled">>
         [] sent.do = "line" /\ cursor.at = "top" -> top' = top \o line
         [] OTHER -> top' = top
    /\ shown' = IF sent.do = "show"
                THEN [shown EXCEPT ![sent.from] = sent.part] ELSE shown
    /\ drawn' = (drawn \/ sent.do = "home")
    /\ endShown' = (endShown \/ (sent.do = "show" /\ sent.ends))

\* raw_send waits for as long as the USB port is busy or not connected.
RawSend ==
    /\ \E what \in Shows : Now(what)
    /\ usb = "ready"
    /\ usb' = "busy"
    /\ Display(Head(todo))
    /\ todo' = Tail(todo)
    /\ UNCHANGED <<queue, sending, line, inputs, unplugs, history>>

Terminal == ReceiveElement \/ TakeCharacter \/ Restart \/ RawSend

-----------------------------------------------------------------------------
(* The host.                                                               *)

\* The lines a sequence of characters makes of the one being typed, for an
\* editor without limits.
Edit(state, c) ==
    CASE c \in Terminators ->
            [now |-> <<>>, lines |-> Append(state.lines, state.now)]
      [] c = "del" -> IF state.now = <<>> THEN state
                      ELSE [state EXCEPT !.now = SubSeq(@, 1, Len(@) - 1)]
      [] OTHER -> [state EXCEPT !.now = Append(@, c)]

\* The states it goes through, one for each character.
Edits(state, chars) ==
    LET f[n \in 0..Len(chars)] ==
            IF n = 0 THEN state ELSE Edit(f[n - 1], chars[n])
    IN  f

\* CDC_Receive_FS, in the interrupt of a packet.
Type(chars) ==
    /\ inputs < MaxInputs
    /\ inputs' = inputs + 1
    /\ usb # "off"
    /\ LET edited == Edits([now |-> typing, lines |-> typed], chars)
           long == \E k \in 1..Len(chars) : Len(edited[k].now) > LineSize
       IN  /\ typing' = edited[Len(chars)].now
           /\ typed' = edited[Len(chars)].lines
           /\ Receive(chars, long)
    /\ UNCHANGED <<sending, todo, line, usb, unplugs, screen>>

\* The host has fetched the transfer.
Fetch ==
    /\ usb = "busy"
    /\ usb' = "ready"
    /\ UNCHANGED <<queue, sending, todo, line, inputs, unplugs, screen,
                   history>>

\* The host comes back with the screen it had, or opens a new one.
Plug ==
    /\ usb = "off"
    /\ usb' = "ready"
    /\ \/ UNCHANGED screen
       \/ /\ cursor' \in Cursors /\ top' = <<>>
          /\ drawn' = FALSE /\ endShown' = FALSE
          /\ UNCHANGED shown
    /\ UNCHANGED <<queue, sending, todo, line, inputs, unplugs, history>>

Unplug ==
    /\ usb # "off"
    /\ unplugs < MaxUnplugs
    /\ unplugs' = unplugs + 1
    /\ usb' = "off"
    /\ UNCHANGED <<queue, sending, todo, line, inputs, screen, history>>

Next ==
    \/ \E t \in Tasks : Log(t)
    \/ \E t \in Senders : SendPart(t)
    \/ Terminal
    \/ \E chars \in Inputs : Type(chars)
    \/ Fetch
    \/ Plug
    \/ Unplug

Spec == Init /\ [][Next]_vars

\* Tasks that can run do; nothing is asked of the host.
FairSpec ==
    /\ Spec
    /\ \A t \in Senders : WF_vars(SendPart(t))
    /\ WF_vars(Terminal)

-----------------------------------------------------------------------------
(* Properties.                                                             *)

\* Whatever the host does, and however much is logged, logging returns, in
\* the terminal task as in any other: nobody waits for room in a queue that
\* is emptied at the pace of the USB port.
LoggersReturn ==
    \A t \in Senders : sending[t] # <<>> ~> sending[t] = <<>>

\* A message is cut at its end only: what is shown of it starts with its
\* first part and has no holes, whatever is shown between its parts.
MessagesAreCutAtTheEnd ==
    [][\A t \in Senders :
          shown'[t] # shown[t] => shown'[t] \in {1, shown[t] + 1}]_vars

\* The line that is executed is the one that was typed, with its deletions,
\* as long as nothing was dropped and no line grew longer than the buffer.
LinesAreTyped ==
    ~lossy /\ Ends => line = Head(typed)

\* Whenever the terminal task has done with an element, the top row shows
\* the prompt and the line as typed, whatever was on the screen before.  From
\* the first line end on, output goes on below it: only the first entry is
\* written where the prompt destroys it (Watchdog.cpp:85).
PromptIsCurrent ==
    todo = <<>> /\ drawn =>
        /\ top = <<">">> \o line
        /\ cursor.at = "top"
        /\ endShown => cursor.saved = "below"
=============================================================================
