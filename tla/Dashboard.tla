------------------------------ MODULE Dashboard ------------------------------
(***************************************************************************)
(* The user program trace.c reading the trace ring while other processes   *)
(* keep tracing.  The ring is the lossy FIFO of TraceStream (which KTrace   *)
(* implements); every system call the program makes (traceread, uptime,    *)
(* sleep, write) is one step, so that events and clock ticks fall in       *)
(* between.  What it draws is recorded in board.                           *)
(***************************************************************************)
EXTENDS Integers, Sequences, FiniteSets, SequencesExt, FiniteSetsExt, Functions

CONSTANTS
  Argvs,       \* the command lines to try: sequences of tokens
  Types,       \* event types; 0 stands for "all" as in the code
  SyscallType, \* TRACE_TYPE_SYSCALL
  Other,       \* pids of the processes that trace
  Self,        \* getpid() of the dashboard
  Capacity,    \* TRACE_BUF_SIZE
  Rows,        \* MAX_TRACE_ROWS
  DefaultRows, \* DEFAULT_DISPLAY_ROWS
  Width,       \* GRAPH_WIDTH, also the cap on the columns moved at once
  Wait,        \* the 10 of "uptime() - last_tick > 10" and of sleep(10)
  Newlines,    \* the 25 newlines written to flush the cursor
  MaxEvents,   \* bound: events traced
  MaxTicks     \* bound: clock ticks

ASSUME DashboardAssumption ==
  /\ {Capacity, Rows, Width} \subseteq Nat \ {0}
  /\ {DefaultRows, Wait, Newlines, MaxEvents, MaxTicks} \subseteq Nat
  /\ Self \notin Other /\ 0 \notin Types /\ SyscallType \in Types

VARIABLES
  put, taken, dropped, got,  \* the ring: see TraceStream
  ticks,                     \* the kernel clock
  argv, arg_idx, limit, limit_set, filter_type, filter_pid, display_rows,
  pc,                        \* where main() is
  left,                      \* newlines still to write
  ticks0,                    \* sys_sleep(): when the sleep began
  seen, recent, recent_count, recent_start,
  activity, activity_pos, last_tick,
  overwritten, total, win,   \* total and wanted events by type
  board,                     \* the last drawBoard()
  columns,                   \* history: the tick under which each event was graphed
  before                     \* history: events traced when the loop was entered

ring == <<put, taken, dropped, got>>
args == <<argv, arg_idx, limit, limit_set, filter_type, filter_pid, display_rows>>
graph == <<activity, activity_pos, last_tick, columns>>
table == <<seen, recent, recent_count, recent_start, overwritten, total, win,
           board>>
vars == <<ring, ticks, args, pc, left, ticks0, graph, table, before>>

\* seq is the event's number; the other fields are those of struct trace_event
\* that the program looks at.
NewEvent(type, pid) ==
  [seq |-> Len(put), type |-> type, pid |-> pid, ticks |-> ticks,
   overwritten |-> dropped]

Ring == INSTANCE TraceStream WITH Items <- {}, CountMod <- MaxEvents + 1

NoBoard == [rows |-> <<>>, captured |-> 0, overwritten |-> 0,
            showing |-> [t \in Types |-> 0]]

\* main()'s locals before the argument loop; recent[] and activity[] are zeroed.
Init ==
  /\ Ring!Init
  /\ ticks \in {0, Wait + 1}
  /\ argv \in Argvs
  /\ arg_idx = 1 /\ limit = 0 /\ limit_set = FALSE
  /\ filter_type = 0 /\ filter_pid = -1 /\ display_rows = DefaultRows
  /\ pc = "args" /\ left = Newlines /\ ticks0 = 0
  /\ seen = 0 /\ recent_count = 0 /\ recent_start = 0
  /\ recent = [i \in 0 .. Rows - 1 |-> <<>>]
  /\ activity = [i \in 0 .. Width - 1 |-> 0] /\ activity_pos = 0
  /\ last_tick = -1
  /\ overwritten = 0 /\ total = [t \in Types |-> 0] /\ win = [t \in Types |-> 0]
  /\ board = NoBoard
  /\ columns = <<>> /\ before = 0

-----------------------------------------------------------------------------
\* The kernel beside the program: other processes trace, the clock ticks.
Trace ==
  /\ Len(put) < MaxEvents
  /\ \E type \in Types, pid \in Other : Ring!Put(NewEvent(type, pid))
  /\ UNCHANGED <<ticks, args, pc, left, ticks0, graph, table, before>>

Tick ==
  /\ ticks < MaxTicks
  /\ ticks' = ticks + 1
  /\ UNCHANGED <<ring, args, pc, left, ticks0, graph, table, before>>

-----------------------------------------------------------------------------
\* The argument loop.  A token is a record: kw is "-n", "type" for the name of
\* the event type type, or "num" for anything else; val is what atoi() makes of
\* the token and zero is TRUE for the token "0" itself.
SetRows(next) ==
  /\ display_rows' = IF next.val > Rows THEN Rows ELSE next.val
  /\ arg_idx' = arg_idx + 2
  /\ UNCHANGED <<limit, limit_set, filter_type, filter_pid>>

SetType(tok) ==
  /\ filter_type' = tok.type
  /\ arg_idx' = arg_idx + 1
  /\ UNCHANGED <<limit, limit_set, filter_pid, display_rows>>

SetNumber(tok) ==
  /\ arg_idx' = arg_idx + 1
  /\ \/ /\ tok.val > 0 \/ tok.zero
        /\ \/ ~limit_set /\ limit' = tok.val /\ limit_set' = TRUE
                         /\ UNCHANGED filter_pid
           \/ limit_set /\ filter_pid = -1 /\ filter_pid' = tok.val
                        /\ UNCHANGED <<limit, limit_set>>
           \/ limit_set /\ filter_pid # -1
                        /\ UNCHANGED <<limit, limit_set, filter_pid>>
     \/ /\ ~(tok.val > 0 \/ tok.zero)
        /\ UNCHANGED <<limit, limit_set, filter_pid>>
  /\ UNCHANGED <<filter_type, display_rows>>

ParseArg ==
  /\ pc = "args" /\ arg_idx <= Len(argv)
  /\ LET tok == argv[arg_idx]
     IN  \/ tok.kw = "-n" /\ arg_idx < Len(argv) /\ SetRows(argv[arg_idx + 1])
         \/ tok.kw = "type" /\ SetType(tok)
         \/ tok.kw = "num" /\ SetNumber(tok)
         \/ tok.kw = "-n" /\ arg_idx = Len(argv) /\ SetNumber(tok)
  /\ UNCHANGED <<ring, ticks, argv, pc, left, ticks0, graph, table, before>>

ArgsDone ==
  /\ pc = "args" /\ arg_idx > Len(argv)
  /\ pc' = "flush"
  /\ UNCHANGED <<ring, ticks, args, left, ticks0, graph, table, before>>

\* One of the printf(1, "\n"): a write system call, which syscall() traces
\* under the dashboard's own pid.
Newline ==
  /\ pc = "flush" /\ left > 0 /\ Len(put) < MaxEvents
  /\ Ring!Put(NewEvent(SyscallType, Self))
  /\ left' = left - 1
  /\ UNCHANGED <<ticks, args, pc, ticks0, graph, table, before>>

\* vidclear() and the zeroed graph; then the loop is entered.
StartLoop ==
  /\ pc = "flush" /\ left = 0
  /\ pc' = "read"
  /\ before' = Len(put)
  /\ UNCHANGED <<ring, ticks, args, left, ticks0, graph, table>>
-----------------------------------------------------------------------------
want_event(e) ==
  /\ e.pid # Self
  /\ filter_type = 0 \/ e.type = filter_type
  /\ filter_pid = -1 \/ e.pid = filter_pid

\* The two copies of the graph code: move activity_pos to the column of tick
\* t, clearing every column passed; a tick in the past moves nothing.
RotateWithoutClear(t) ==
  LET last == IF last_tick = -1 THEN t ELSE last_tick
      diff == Max({0, Min({t - last, Width})})
  IN  [pos |-> (activity_pos + diff) % Width, last |-> Max({t, last}),
       act |-> [activity EXCEPT ![(activity_pos + diff) % Width] =
                  IF diff > 0 THEN 0 ELSE @]]
Rotate(t) ==
  LET last == IF last_tick = -1 THEN t ELSE last_tick
      diff == Max({0, Min({t - last, Width})})
      passed == {(activity_pos + i) % Width : i \in 1 .. diff}
  IN  [pos |-> (activity_pos + diff) % Width, last |-> Max({t, last}),
       act |-> [c \in DOMAIN activity |-> IF c \in passed THEN 0 ELSE activity[c]]]

\* drawBoard(): the first display_rows entries of recent[], oldest first.
RowsFromZero(rec, count, start) ==
  [i \in 1 .. Min({count, display_rows, Rows}) |-> rec[(i - 1) % Rows]]
DrawnRows(rec, count, start) ==
  [i \in 1 .. Min({count, display_rows, Rows}) |-> rec[(start + i - 1) % Rows]]

drawBoard(rec, count, start, ov, w) ==
  board' = [rows |-> DrawnRows(rec, count, start), captured |-> seen,
            overwritten |-> ov, showing |-> w]

\* recent[]: fill it, then replace the oldest entry.
Remember(e) ==
  \/ /\ recent_count < Rows
     /\ recent' = [recent EXCEPT ![recent_count] = e]
     /\ recent_count' = recent_count + 1
     /\ UNCHANGED recent_start
  \/ /\ recent_count = Rows
     /\ recent' = [recent EXCEPT ![recent_start] = e]
     /\ recent_start' = (recent_start + 1) % Rows
     /\ UNCHANGED recent_count

LoopingUpToLimit == pc = "read" /\ seen < limit
Looping == pc = "read" /\ (limit = 0 \/ seen < limit)

\* traceread() returned an event the filters reject.  (It cannot return -1: the
\* destination is the program's own stack.)
SkipEvent ==
  /\ Looping /\ Ring!Waiting > 0
  /\ LET e == put[taken + 1]
     IN  /\ ~want_event(e)
         /\ total' = [total EXCEPT ![e.type] = @ + 1]
         /\ overwritten' = e.overwritten
  /\ Ring!Get(1, 0)
  /\ UNCHANGED <<ticks, args, pc, left, ticks0, graph, seen, recent,
                 recent_count, recent_start, win, board, before>>

\* traceread() returned an event to capture; seen is counted after drawing.
CaptureEvent ==
  /\ Looping /\ Ring!Waiting > 0
  /\ LET e == put[taken + 1]
         g == Rotate(e.ticks)
     IN  /\ want_event(e)
         /\ total' = [total EXCEPT ![e.type] = @ + 1]
         /\ win' = [win EXCEPT ![e.type] = @ + 1]
         /\ overwritten' = e.overwritten
         /\ last_tick' = g.last /\ activity_pos' = g.pos
         /\ activity' = [g.act EXCEPT ![g.pos] = @ + 1]
         /\ columns' = Append(columns, g.last)
         /\ Remember(e)
         /\ drawBoard(recent', recent_count', recent_start', e.overwritten, win')
  /\ seen' = seen + 1
  /\ Ring!Get(1, 0)
  /\ UNCHANGED <<ticks, args, pc, left, ticks0, before>>

\* while(limit == 0 || seen < limit) ends.
LimitReached ==
  /\ pc = "read" /\ ~Looping
  /\ pc' = "exit"
  /\ UNCHANGED <<ring, ticks, args, left, ticks0, graph, table, before>>

\* traceread() returned 0.
ReadNothing ==
  /\ Looping /\ Ring!Waiting = 0
  /\ pc' = IF limit = 0 /\ recent_count > 0 THEN "exit"
           ELSE IF limit = 0 /\ seen = 0 THEN "check" ELSE "idle"
  /\ UNCHANGED <<ring, ticks, args, left, ticks0, graph, table, before>>

\* if(uptime() - last_tick > 10) break;
CheckEmpty ==
  /\ pc = "check"
  /\ pc' = IF ticks - last_tick > Wait THEN "exit" ELSE "idle"
  /\ UNCHANGED <<ring, ticks, args, left, ticks0, graph, table, before>>

\* now = uptime(): bring the graph up to date, redraw if time has passed.
Idle ==
  /\ pc = "idle"
  /\ LET g == Rotate(ticks)
     IN  /\ last_tick' = g.last /\ activity_pos' = g.pos /\ activity' = g.act
         /\ \/ last_tick # -1 /\ ticks > last_tick
               /\ drawBoard(recent, recent_count, recent_start, overwritten, win)
            \/ ~(last_tick # -1 /\ ticks > last_tick) /\ UNCHANGED board
  /\ pc' = "sleep"
  /\ UNCHANGED <<ring, ticks, args, left, ticks0, columns, seen, recent,
                 recent_count, recent_start, overwritten, total, win, before>>

\* sleep(10): sys_sleep() notes the time and returns when 10 ticks have passed.
Sleep ==
  /\ pc = "sleep" /\ pc' = "asleep" /\ ticks0' = ticks
  /\ UNCHANGED <<ring, ticks, args, left, graph, table, before>>

Wake ==
  /\ pc = "asleep" /\ ticks - ticks0 >= Wait /\ pc' = "read"
  /\ UNCHANGED <<ring, ticks, args, left, ticks0, graph, table, before>>

Program ==
  \/ ParseArg \/ ArgsDone \/ Newline \/ StartLoop
  \/ SkipEvent \/ CaptureEvent \/ LimitReached
  \/ ReadNothing \/ CheckEmpty \/ Idle \/ Sleep \/ Wake

Next == Trace \/ Tick \/ Program

Spec == Init /\ [][Next]_vars
-----------------------------------------------------------------------------
\* The events read so far that pass the filters, in order.
Captured == SelectSeq(got, want_event)

\* Column b to the left of the graph's right end counts the events graphed
\* under tick last_tick - b: no event is counted in two columns, and a column
\* that is reused after Width ticks starts from zero, however long the pauses.
GraphCounts ==
  \A b \in 0 .. Width - 1 :
    activity[(activity_pos - b) % Width]
      = Quantify(DOMAIN columns, LAMBDA i : columns[i] = last_tick - b)

\* The rows on the screen are consecutive captured events: the oldest ones of
\* the window that recent[] held when the board was drawn.
BoardShowsWindow ==
  LET n == FoldFunction(+, 0, board.showing)
      m == Min({n, Rows})
  IN  board.rows = SubSeq(Captured, n - m + 1, n - m + Min({m, display_rows}))

\* "drains the kernel's 128-event ring buffer and exits" (README.md): when a
\* one-shot run ends, nothing that was traced before its loop is still unread,
\* although others keep tracing while it reads.
OneshotDrains == pc = "exit" /\ limit = 0 => taken >= before
=============================================================================
