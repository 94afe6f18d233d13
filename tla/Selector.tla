------------------------------ MODULE Selector ------------------------------
(* The select loop through which the interactive shell, and the pipes to viewers, share *)
(* one thread (Pipe.pm, with the shell and the watchers of viewers as its users): while *)
(* one of them waits for its own channel, the others are served.                        *)
EXTENDS Naturals, Sequences, FiniteSets, SequencesExt

CONSTANTS
  Viewers, Shell,
  Circumstances,   \* what happens, a set of records of
                   \*   viewers  those running
                   \*   prints   how many times something is printed to each
                   \*   told     how many messages each sends
                   \*   cut      a line arrives in two pieces
                   \*   answers  feedback is answered
                   \*   burst    something is printed while output is still pending
                   \*   closes   viewers are closed
                   \*   lines    how many lines the user types
  PrintSize,       \* what is printed at once, in the units of
  Capacity         \* what fits into a channel on its way

ASSUME SelectorAssumption ==
  /\ Shell \notin Viewers /\ PrintSize \in Nat \ {0} /\ Capacity \in Nat \ {0}
  /\ \A c \in Circumstances :
       /\ c.viewers \subseteq Viewers
       /\ ~(c.cut /\ c.closes) /\ ~(c.burst /\ c.closes)
       /\ c.cut => Cardinality(c.viewers) = 1

VARIABLES
  stack,      \* the calls open in polymake, the loops with the channels still to be served
  channels,   \* the viewers registered: @channels, $rmask
  wmask,      \* those with output pending
  link,       \* for each viewer the buffers, and the channels to and from it
  keys,       \* lines typed and not read
  typed,      \* lines typed
  line,       \* the line read: $input_line
  world       \* the circumstances, which never change

vars == <<stack, channels, wmask, link, keys, typed, line, world>>

Frame(op, m) == [op |-> op, m |-> m, r |-> {}, w |-> {}, pos |-> 0]
Prompt == <<Frame("prompt", Shell)>>
Top == stack[Len(stack)]
Call(op, m) == Append(stack, Frame(op, m))
Return == Front(stack)
Served(r, w) == [stack EXCEPT ![Len(stack)] = [@ EXCEPT !.r = r, !.w = w]]

-----------------------------------------------------------------------------
(* The viewers and the user.  A viewer sends a message when there is room for all of it, *)
(* and reads whenever something has arrived.                                            *)
Room(p) == Capacity - Len(link[p].out)
Message == IF world.cut THEN <<"part", "line">> ELSE <<"line">>

Outside == UNCHANGED <<stack, channels, wmask, line, world>>

Talk(p) ==
  /\ link[p].state = "idle" /\ link[p].told < world.told
  /\ Len(link[p].in) + Len(Message) <= Capacity
  /\ link' = [link EXCEPT ![p].in = Append(@, Head(Message)), ![p].told = @ + 1,
                          ![p].state = IF world.cut THEN "talking" ELSE "idle"]
  /\ UNCHANGED <<keys, typed>> /\ Outside

GoOn(p) ==
  /\ link[p].state = "talking"
  /\ link' = [link EXCEPT ![p].in = Append(@, "line"), ![p].state = "idle"]
  /\ UNCHANGED <<keys, typed>> /\ Outside

Receive(p) ==
  /\ link[p].state # "gone" /\ link[p].out # <<>>
  /\ link' = [link EXCEPT ![p].got = Head(link[p].out), ![p].out = Tail(@)]
  /\ UNCHANGED <<keys, typed>> /\ Outside

GoAway(p) ==
  /\ world.closes /\ link[p].state = "idle"
  /\ link' = [link EXCEPT ![p].state = "gone"]
  /\ UNCHANGED <<keys, typed>> /\ Outside

Type ==
  /\ typed < world.lines /\ typed' = typed + 1 /\ keys' = keys + 1
  /\ UNCHANGED link /\ Outside

-----------------------------------------------------------------------------
(* Channels.                                                                            *)
ReadReady ==
  {p \in channels : link[p].in # <<>> \/ link[p].state = "gone"} \cup (IF keys > 0 THEN {Shell} ELSE {})
WriteReady == {p \in wmask : Room(p) > 0 \/ link[p].state = "gone"}

forget(p) == channels' = channels \ {p} /\ wmask' = wmask \ {p}

(* Pipe::do_read reads what has arrived, or part of it, or waits for something to       *)
(* arrive.  The end of the data closes the pipe.                                        *)
do_read(p, data, end) ==
  \/ \E k \in 1..Len(link[p].in) :
       /\ link' = [link EXCEPT ![p].rbuffer = @ \o SubSeq(link[p].in, 1, k),
                               ![p].in = SubSeq(@, k + 1, Len(@))]
       /\ stack' = data /\ UNCHANGED <<channels, wmask>>
  \/ link[p].in = <<>> /\ link[p].state = "gone" /\ forget(p) /\ stack' = end /\ UNCHANGED link

(* A key completes the line, and takes the handler for keys away.  Without one the      *)
(* library aborts.                                                                      *)
callback_read_char(next) ==
  IF stack[1].op = "prompt" /\ ~line
  THEN keys' = keys - 1 /\ line' = TRUE /\ stack' = next
  ELSE stack' = <<Frame("aborted", Shell)>> /\ UNCHANGED <<keys, line>>

\* Mutant of Flushed: one piece of what has been written is kept.
Flushed_Kept(l, q) ==
  LET k == Min({Capacity - Len(l.out), Len(q)})
  IN  [l EXCEPT !.out = @ \o SubSeq(q, 1, k), !.wbuffer = SubSeq(q, IF k > 1 THEN k ELSE k + 1, Len(q))]

(* q is written as far as there is room, and the rest kept.                             *)
Flushed(l, q) ==
  LET k == Min({Capacity - Len(l.out), Len(q)})
  IN  [l EXCEPT !.out = @ \o SubSeq(q, 1, k), !.wbuffer = SubSeq(q, k + 1, Len(q))]

(* Collaborative::out_avail writes what is pending.  The descriptor is not in its       *)
(* non-blocking mode then: it waits until all has been written, and serves nobody.  If  *)
(* the viewer is gone it closes the pipe, and nothing is printed after it.              *)
Flush ==
  /\ Top.op = "flush"
  /\ LET p == Top.m
         q == link[p].wbuffer
         above == Frame("print", p)
     IN  IF q # <<>> /\ link[p].state = "gone"
         THEN /\ forget(p) /\ UNCHANGED link
              /\ stack' = IF Last(Return) = above THEN Front(Return) ELSE Return
         ELSE /\ q = <<>> \/ Room(p) > 0
              /\ link' = [link EXCEPT ![p] = Flushed(@, q)]
              /\ IF link'[p].wbuffer = <<>> THEN stack' = Return /\ wmask' = wmask \ {p}
                 ELSE UNCHANGED <<stack, wmask>>
              /\ UNCHANGED channels
  /\ UNCHANGED <<keys, typed, line, world>>

-----------------------------------------------------------------------------
(* The loops of try_read and try_write.                                                 *)
Looping == Top.op \in {"read", "write"}
Selecting == Looping /\ Top.r = {} /\ Top.w = {}

\* Mutant of Select: the member itself is served like the others.
Select_All ==
  /\ Selecting /\ (Top.op = "read" => Top.m \notin ReadReady)
  /\ Top.op = "write" => Top.m \notin WriteReady
  /\ ReadReady \cup WriteReady # {}
  /\ stack' = Served(ReadReady \cup {Top.m}, WriteReady)
  /\ UNCHANGED <<channels, wmask, link, keys, typed, line, world>>

Select ==
  /\ Selecting
  /\ Top.op = "read" => Top.m \notin ReadReady
  /\ Top.op = "write" => Top.m \notin WriteReady
  /\ ReadReady \cup WriteReady # {}
  /\ stack' = Served(ReadReady, WriteReady)
  /\ UNCHANGED <<channels, wmask, link, keys, typed, line, world>>

(* try_read has found what it waits for: the shell's key, or more of a viewer's line.   *)
ReadMember ==
  /\ Selecting /\ Top.op = "read" /\ Top.m \in ReadReady
  /\ IF Top.m = Shell THEN callback_read_char(Return) /\ UNCHANGED <<channels, wmask, link>>
     ELSE do_read(Top.m, Return, Return) /\ UNCHANGED <<keys, line>>
  /\ UNCHANGED <<typed, world>>

(* try_write, called because output is pending: when it has been drained the text is    *)
(* written.  When nobody is ready it is not appended to what is pending, as             *)
(* Collaborative::WRITE takes its own object for the text; the caller is told that all  *)
(* is well.                                                                             *)
Dropped(p) == link' = [link EXCEPT ![p].sent = @ + PrintSize]

WriteMember ==
  /\ Selecting /\ Top.op = "write" /\ Top.m \in WriteReady
  /\ stack' = Return \o <<Frame("print", Top.m), Frame("flush", Top.m)>>
  /\ UNCHANGED <<channels, wmask, link, keys, typed, line, world>>

WriteStalls ==
  /\ Selecting /\ Top.op = "write" /\ ReadReady \cup WriteReady = {}
  /\ stack' = Append(Return, Frame("drop", Top.m))
  /\ UNCHANGED <<channels, wmask, link, keys, typed, line, world>>

Drop ==
  /\ Top.op = "drop" /\ Dropped(Top.m) /\ stack' = Return
  /\ UNCHANGED <<channels, wmask, keys, typed, line, world>>

(* The others are served, first those with output pending; what a call finds out about  *)
(* a channel changes nothing of the lists.  A call for a channel which is closed is an  *)
(* exception, that ends in the shell.                                                   *)
ServeOutput(p) ==
  /\ Looping /\ p \in Top.w
  /\ LET next == Served(Top.r, Top.w \ {p})
     IN  stack' = IF p \in channels THEN Append(next, Frame("flush", p)) ELSE <<Frame("failed", Shell)>>
  /\ UNCHANGED <<channels, wmask, link, keys, typed, line, world>>

FeedbackFrame(p) == [Frame("feedback", p) EXCEPT !.pos = Len(link[p].rbuffer)]

ServeInput(p) ==
  /\ Looping /\ Top.w = {} /\ p \in Top.r
  /\ LET next == Served(Top.r \ {p}, {})
     IN  IF p = Shell
         THEN keys > 0 /\ callback_read_char(next) /\ UNCHANGED <<channels, wmask, link>>
         ELSE /\ IF p \in channels THEN do_read(p, Append(next, FeedbackFrame(p)), next)
                 ELSE stack' = <<Frame("failed", Shell)>> /\ UNCHANGED <<channels, wmask, link>>
              /\ UNCHANGED <<keys, line>>
  /\ UNCHANGED <<typed, world>>

-----------------------------------------------------------------------------
(* The watcher of a viewer goes through what it has read, as much as there was not      *)
(* before, takes the first line, answers it or not, and waits for the rest of an        *)
(* incomplete one.                                                                      *)
Printing(p) == IF link[p].wbuffer = <<>> THEN "print" ELSE "write"
MayPrint(p) ==
  /\ p \in channels /\ link[p].sent < PrintSize * world.prints
  /\ world.burst \/ link[p].wbuffer = <<>>

Feedback ==
  /\ Top.op = "feedback"
  /\ LET p == Top.m
         q == link[p].rbuffer
     IN  IF Len(q) <= Top.pos THEN stack' = Return /\ UNCHANGED link
         ELSE IF "line" \notin ToSet(q) THEN stack' = Call("read", p) /\ UNCHANGED link
         ELSE /\ link' = [link EXCEPT ![p].rbuffer = SubSeq(q, (CHOOSE i \in DOMAIN q :
                            q[i] = "line" /\ \A j \in 1..(i - 1) : q[j] # "line") + 1, Len(q))]
              /\ \/ UNCHANGED stack
                 \/ world.answers /\ MayPrint(p) /\ stack' = Call(Printing(p), p)
  /\ UNCHANGED <<channels, wmask, keys, typed, line, world>>

\* Mutant of WriteOut: what does not fit is kept, but nobody is told.
WriteOut_Unmasked ==
  /\ Top.op = "print"
  /\ link' = [link EXCEPT ![Top.m] =
       Flushed([link[Top.m] EXCEPT !.sent = @ + PrintSize], [i \in 1..PrintSize |-> link[Top.m].sent + i])]
  /\ stack' = Return
  /\ UNCHANGED <<channels, wmask, keys, typed, line, world>>

(* Pipe::WRITE does not block: what does not fit into the channel is kept.              *)
WriteOut ==
  /\ Top.op = "print"
  /\ LET p == Top.m
     IN  IF link[p].state = "gone" THEN forget(p) /\ UNCHANGED link
         ELSE /\ link' = [link EXCEPT ![p] =
                   Flushed([link[p] EXCEPT !.sent = @ + PrintSize], [i \in 1..PrintSize |-> link[p].sent + i])]
              /\ wmask' = IF link'[p].wbuffer # <<>> THEN wmask \cup {p} ELSE wmask
              /\ UNCHANGED channels
  /\ stack' = Return
  /\ UNCHANGED <<keys, typed, line, world>>

(* The shell waits for a line and executes it; the command shows things in viewers.     *)
Await ==
  /\ Top.op = "prompt"
  /\ IF line THEN stack' = <<Frame("command", Shell)>> /\ line' = FALSE
     ELSE stack' = Call("read", Shell) /\ UNCHANGED line
  /\ UNCHANGED <<channels, wmask, link, keys, typed, world>>

Launch(p) ==
  /\ Top.op = "command" /\ MayPrint(p) /\ stack' = Call(Printing(p), p)
  /\ UNCHANGED <<channels, wmask, link, keys, typed, line, world>>

CommandEnds ==
  /\ Top.op = "command" /\ stack' = Prompt
  /\ UNCHANGED <<channels, wmask, link, keys, typed, line, world>>

(* An exception ends in the shell, which asks for another line, also when it has got one *)
(* meanwhile; the library's abort ends the program.                                     *)
Recover ==
  /\ Top.op = "failed" /\ stack' = Prompt /\ line' = FALSE
  /\ UNCHANGED <<channels, wmask, link, keys, typed, world>>

(* Nothing is left to be done at the prompt, or at all, or a read waits in vain, for a  *)
(* channel emptied since it was found ready.                                            *)
Idle ==
  /\ \/ Selecting /\ Top = Frame("read", Shell) /\ ReadReady \cup WriteReady = {} /\ typed = world.lines
     \/ Top.op = "aborted"
     \/ Looping /\ Top.w = {} /\ Top.r \ ReadReady # {} /\ typed = world.lines
  /\ UNCHANGED vars

Init ==
  /\ world \in Circumstances
  /\ stack = Prompt /\ channels = world.viewers /\ wmask = {}
  /\ link = [p \in world.viewers |-> [state |-> "idle", told |-> 0, in |-> <<>>, out |-> <<>>, got |-> 0,
                                      sent |-> 0, rbuffer |-> <<>>, wbuffer |-> <<>>]]
  /\ keys = 0 /\ typed = 0 /\ line = FALSE

Polymake ==
  \/ Await \/ CommandEnds \/ \E p \in world.viewers : Launch(p)
  \/ Select \/ ReadMember \/ WriteMember \/ WriteStalls \/ Drop
  \/ \E p \in world.viewers \cup {Shell} : ServeOutput(p) \/ ServeInput(p)
  \/ Feedback \/ Flush \/ WriteOut \/ Recover

Environment ==
  Type \/ \E p \in world.viewers : Talk(p) \/ GoOn(p) \/ Receive(p) \/ GoAway(p)

Next == Polymake \/ Environment \/ Idle

Spec == Init /\ [][Next]_vars

(* polymake is one thread and never stops; a viewer says what it has begun to say, and  *)
(* reads in between.                                                                    *)
FairSpec ==
  /\ Spec /\ WF_vars(Polymake)
  /\ \A p \in Viewers : /\ WF_vars(p \in world.viewers /\ GoOn(p))
                        /\ WF_vars(p \in world.viewers /\ Receive(p))

-----------------------------------------------------------------------------
(* What is to be checked.                                                               *)
Ascending(q, n) == \A i \in DOMAIN q : q[i] > (IF i = 1 THEN n ELSE q[i - 1])

(* What is printed to a viewer arrives in order, and nothing is lost as long as one     *)
(* waits with more until it is gone (Pipe.pm:243-268, :320-340).                        *)
OutputInOrder ==
  \A p \in world.viewers :
    LET q == link[p].out \o link[p].wbuffer
    IN  /\ Ascending(q, link[p].got)
        /\ ~world.burst /\ p \in channels => Len(q) = link[p].sent - link[p].got

(* Nothing is printed while output is pending, or to a viewer about to leave, and lines *)
(* arrive in one piece: no loop runs within another one.                                *)
Orderly == ~world.cut /\ ~world.burst /\ (world.closes => world.prints = 0)

(* Whoever is still to be served is registered and will not make polymake wait          *)
(* (Pipe.pm:99-118): no call fails and no key comes without its handler.               *)
ReadySetsFresh ==
  /\ stack[1].op \notin {"failed", "aborted"}
  /\ \A i \in DOMAIN stack : stack[i].r \subseteq ReadReady /\ stack[i].w \subseteq wmask

(* The viewers and the shell coexist (InteractiveViewer.pm:139): what has been printed  *)
(* arrives, and what the user types is executed, however they interrupt each other.     *)
Arrives == \A p \in Viewers :
  (Orderly /\ ~world.closes /\ p \in world.viewers /\ link[p].got < link[p].sent)
    ~> (p \in world.viewers /\ link[p].got = link[p].sent)

Executed == (Orderly /\ (keys > 0 \/ line)) ~> (keys = 0 /\ ~line)

Coexistence == [](Orderly => ReadySetsFresh) /\ Arrives /\ Executed
=============================================================================
