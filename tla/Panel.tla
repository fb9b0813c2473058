--------------------------------- MODULE Panel ---------------------------------
(***************************************************************************)
(* The endless loop of main.cpp: it draws the menu of the last key on the  *)
(* display and, in the GPS menu, data or "no fix" after the quality of the *)
(* position.  The callback of the keypad and the parser of the receiver    *)
(* change Index and the quality between any two steps of it.               *)
(*                                                                         *)
(* A row of the display is the set of texts of which something can be      *)
(* read: a text, written from column 0, hides those that are not longer.   *)
(***************************************************************************)
EXTENDS Integers

CONSTANTS SatsWidth, SpeedWidth     \* lengths the two lines may have

VARIABLES Index,        \* the last key; -1 before the first
          quality,      \* has the receiver a fix? (getGPSquality)
          pc,           \* where main is
          i,            \* polls without a fix; 3 stands for all above
          firstPressed, \* menus that have not been drawn yet
          gpsFixflag, firstExecflag,
          screen,       \* rows of the display
          shown,        \* history: what was drawn last
          polls         \* history: the last three polls of the quality

vars == <<Index, quality, pc, i, firstPressed, gpsFixflag, firstExecflag,
          screen, shown, polls>>

Rows  == 0 .. 3
Blank == [r \in Rows |-> {}]

\* Text of length w written from the first column of row r.
Printed(display, r, text, w) ==
    [display EXCEPT ![r] = {<<text, w>>} \cup {t \in @ : t[2] > w}]

OnScreen(texts) == \E r \in Rows : \E t \in screen[r] : t[1] \in texts

Menu == <<[name |-> "navegation", width |-> 15],
          [name |-> "temperature", width |-> 16],
          [name |-> "driving", width |-> 12]>>

DataTexts == {"time", "sats", "speed"}

Polled(fix) == <<fix, polls[1], polls[2]>>

\* One line for the time, one for the satellites and one for the speed.
Data(display) ==
    {Printed(Printed(Printed(display, 0, "time", 19), 1, "sats", s), 2, "speed", v) :
        s \in SatsWidth, v \in SpeedWidth}

\* ScreenLoadinggps
Loading(display) == Printed(Printed(display, 1, "loading", 19), 2, "nofix", 17)

-----------------------------------------------------------------------------
(* The interrupts *)

\* Keypad::_checkIndex and commandAfterInput.
Key(k) ==
    /\ Index' = k
    /\ UNCHANGED <<quality, pc, i, firstPressed, gpsFixflag, firstExecflag,
                   screen, shown, polls>>

\* ticktock parses a $GPGGA.
Receiver ==
    /\ quality' = ~quality
    /\ UNCHANGED <<Index, pc, i, firstPressed, gpsFixflag, firstExecflag,
                   screen, shown, polls>>

-----------------------------------------------------------------------------
(* The loop *)

Default ==
    /\ pc = "switch" /\ Index = -1
    /\ screen' = Printed(screen, 1, "press", 18) /\ shown' = "press"
    /\ UNCHANGED <<Index, quality, pc, i, firstPressed, gpsFixflag,
                   firstExecflag, polls>>

\* Mutant: a menu is drawn only when its key is pressed for the first time.
DrawMenuOnce(k) ==
    /\ pc = "switch" /\ Index = k /\ k \in firstPressed
    /\ screen' = Printed(Blank, 0, Menu[k].name, Menu[k].width)
    /\ firstPressed' = firstPressed \ {k} /\ shown' = Menu[k].name
    /\ UNCHANGED <<Index, quality, pc, i, gpsFixflag, firstExecflag, polls>>

DrawMenu(k) ==
    /\ pc = "switch" /\ Index = k
    /\ LET display == IF k \in firstPressed THEN Blank ELSE screen
       IN  screen' = Printed(display, 0, Menu[k].name, Menu[k].width)
    /\ firstPressed' = firstPressed \ {k} /\ shown' = Menu[k].name
    /\ UNCHANGED <<Index, quality, pc, i, gpsFixflag, firstExecflag, polls>>

EnterGps ==
    /\ pc = "switch" /\ Index = 0
    /\ screen' = IF 0 \in firstPressed THEN Blank ELSE screen
    /\ pc' = "poll"
    /\ UNCHANGED <<Index, quality, i, firstPressed, gpsFixflag, firstExecflag,
                   shown, polls>>

DrawData(display) ==
    /\ screen' \in Data(display) /\ shown' = "data"
    /\ firstPressed' = firstPressed \ {0} /\ pc' = "switch"

\* Mutant: the display is not cleared when the fix is back.
FixNoClear ==
    /\ pc = "poll" /\ quality
    /\ i' = 0 /\ gpsFixflag' = TRUE /\ polls' = Polled(TRUE)
    /\ DrawData(screen)
    /\ UNCHANGED <<Index, quality, firstExecflag>>

Fix ==
    /\ pc = "poll" /\ quality
    /\ i' = 0 /\ gpsFixflag' = TRUE /\ polls' = Polled(TRUE)
    /\ DrawData(IF gpsFixflag THEN screen ELSE Blank)
    /\ UNCHANGED <<Index, quality, firstExecflag>>

Missed == /\ pc = "poll" /\ ~quality
          /\ polls' = Polled(FALSE)

\* Mutant: one miss more is tolerated.
MissToleratedMore ==
    /\ Missed /\ i + 1 <= 3
    /\ i' = i + 1
    /\ DrawData(screen)
    /\ UNCHANGED <<Index, quality, gpsFixflag, firstExecflag>>

MissTolerated ==
    /\ Missed /\ i + 1 < 3
    /\ i' = i + 1
    /\ DrawData(screen)
    /\ UNCHANGED <<Index, quality, gpsFixflag, firstExecflag>>

MissShown ==
    /\ Missed /\ i + 1 >= 3
    /\ i' = 3
    /\ screen' = Loading(IF firstExecflag \/ ~gpsFixflag THEN Blank ELSE screen)
    /\ shown' = "loading" /\ pc' = "wait"
    /\ UNCHANGED <<Index, quality, firstPressed, gpsFixflag, firstExecflag>>

\* while(quality): the loop is left when there is no fix.
StopsWaiting == ~quality

\* Mutant: that the fix was lost is not kept.
WaitedNoFlag ==
    /\ pc = "wait" /\ StopsWaiting
    /\ firstExecflag' = FALSE
    /\ firstPressed' = firstPressed \ {0} /\ pc' = "switch"
    /\ UNCHANGED <<Index, quality, i, gpsFixflag, screen, shown, polls>>

Waited ==
    /\ pc = "wait" /\ StopsWaiting
    /\ gpsFixflag' = FALSE /\ firstExecflag' = FALSE
    /\ firstPressed' = firstPressed \ {0} /\ pc' = "switch"
    /\ UNCHANGED <<Index, quality, i, screen, shown, polls>>

-----------------------------------------------------------------------------
Init ==
    /\ Index = -1 /\ quality = FALSE /\ pc = "switch"
    /\ i = 3 /\ firstPressed = 0 .. 3
    /\ gpsFixflag = TRUE /\ firstExecflag = TRUE
    /\ screen = Blank /\ shown = "intro" /\ polls = <<FALSE, FALSE, FALSE>>

Main ==
    \/ Default \/ (\E k \in 1 .. 3 : DrawMenu(k))
    \/ EnterGps \/ Fix \/ MissTolerated \/ MissShown \/ Waited

Next == (\E k \in 0 .. 3 : Key(k)) \/ Receiver \/ Main

Spec == Init /\ [][Next]_vars

\* The handlers are short: main goes on in the end.
FairSpec == Spec /\ WF_vars(Main)

-----------------------------------------------------------------------------
(* Properties *)

TypeOK ==
    /\ Index \in -1 .. 3 /\ quality \in BOOLEAN
    /\ pc \in {"switch", "poll", "wait"} /\ i \in 0 .. 3
    /\ firstPressed \in SUBSET (0 .. 3)
    /\ gpsFixflag \in BOOLEAN /\ firstExecflag \in BOOLEAN
    /\ polls \in [1 .. 3 -> BOOLEAN]

\* Data is drawn only when one of the last three polls found a fix: never
\* before the first fix and at most twice after it is lost (main.cpp:127-142).
DataNeedsFix ==
    [][pc = "poll" /\ pc' = "switch" => \E n \in 1 .. 3 : polls'[n] = TRUE]_vars

\* While the data is what was drawn last, nothing else can be read on the
\* display: neither the texts of the other menus nor those of the lost fix
\* (main.cpp:119, 135-140, 155).
DataScreenClean ==
    shown = "data" /\ pc = "switch" =>
        \A r \in Rows : \A t \in screen[r] : t[1] \in DataTexts

\* When the fix stays lost, the old time disappears from the GPS menu.
StaleTimeGoes ==
    (Index = 0 /\ ~quality /\ OnScreen({"time"}))
        ~> (~OnScreen({"time"}) \/ quality \/ Index # 0)

\* The menu of a key is drawn, unless main is held by a fix in its wait loop.
KeyServed ==
    /\ \A k \in 1 .. 3 :
          Index = k ~> (shown = Menu[k].name \/ Index # k \/ (pc = "wait" /\ quality))
    /\ Index = 0 ~> (shown \in {"data", "loading"} \/ Index # 0)

\* "GPS fix failed waiting for new fix" (main.cpp:154): a fix that comes and
\* stays ends the wait, and the data is drawn.
FixIsShown ==
    (Index = 0 /\ quality) ~> (shown = "data" \/ ~quality \/ Index # 0)
=============================================================================
