--------------------------- MODULE MCDiagnostics ----------------------------
(* Telemetries on both sides of every threshold of the analyzer, where at  *)
(* the basic level nothing is timed; and reports whose texts hold every    *)
(* kind of character the formats treat specially.                          *)
EXTENDS Diagnostics

Quiet == [frames |-> 10, level |-> "detailed", speed |-> 98, overBudget |-> 0,
          guest |-> 0, renderer |-> 0, gpu |-> 0, wait |-> 0, transfer |-> 0,
          audio |-> 0, netplay |-> 0, shader |-> 0, other |-> 0,
          compileShare |-> 0, longCompile |-> FALSE, efbPerFrame |-> 0, inputWaits |-> FALSE,
          dispatched |-> TRUE, missRate |-> 0, slowRate |-> 0, fallbacks |-> 0,
          unsupported |-> FALSE, busiest |-> 0, threads |-> 2]

Timings ==
  {[Quiet EXCEPT !.guest = guest, !.renderer = renderer, !.wait = wait, !.gpu = gpu,
                 !.transfer = some, !.audio = some, !.netplay = netplay,
                 !.shader = netplay, !.other = other, !.speed = speed] :
     guest \in {0, 20, 40, 60}, renderer \in {0, 29, 35, 55}, wait \in {0, 20, 35, 61},
     gpu \in {0, 39, 41, 60}, some \in {0, 20}, netplay \in {0, 10, 20}, other \in {0, 10},
     speed \in {97, 98}}

Counters ==
  {[Quiet EXCEPT !.frames = frames, !.level = IF guest = 0 THEN "basic" ELSE "detailed",
                 !.guest = guest, !.speed = speed, !.overBudget = over,
                 !.compileShare = compile, !.longCompile = long, !.missRate = miss,
                 !.fallbacks = fallbacks, !.slowRate = slow, !.unsupported = unsupported,
                 !.busiest = busiest, !.threads = threads, !.dispatched = dispatched] :
     frames \in {9, 10}, guest \in {0, 30, 40}, speed \in {97, 98}, over \in {4, 5},
     compile \in {0, 3}, long \in BOOLEAN, miss \in {0, 1, 5}, fallbacks \in {0, 1000},
     slow \in {0, 25}, unsupported \in BOOLEAN, busiest \in {89, 90}, threads \in {1, 2},
     dispatched \in BOOLEAN}

(* Nothing was missed or interpreted where nothing was dispatched.         *)
MCTelemetries ==
  Timings \cup {t \in Counters : ~t.dispatched => t.missRate = 0 /\ t.fallbacks = 0}

-----------------------------------------------------------------------------
Chars == {Comma, Quote, NewLine, CarriageReturn, Letter}
TextsUpTo(n) == UNION {[1 .. i -> Chars] : i \in 0 .. n}
Plain == [schema |-> 1, name |-> <<Letter>>, log |-> <<>>]

MCReports ==
  {[Plain EXCEPT !.name = name] : name \in TextsUpTo(2) \cup [1 .. 3 -> {Comma, Quote, Letter}]}
  \cup {[Plain EXCEPT !.log = <<line, <<>>, <<Letter>>>>] : line \in TextsUpTo(2)}
  \cup {[Plain EXCEPT !.schema = schema] : schema \in {0, 2}}
=============================================================================
