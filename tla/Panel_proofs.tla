----------------------------- MODULE Panel_proofs -----------------------------
(***************************************************************************)
(* Theorems about Panel, for every length the lines may have.              *)
(***************************************************************************)
EXTENDS Panel, TLAPS

\* The counter tells how many polls ago the last fix was seen.
CountInv ==
    /\ i \in {0, 1, 2, 3}
    /\ i = 0 => polls[1] = TRUE
    /\ i = 1 => polls[2] = TRUE
    /\ i = 2 => polls[3] = TRUE

LEMMA CountInductive == CountInv /\ [Next]_vars => CountInv'
<1> SUFFICES ASSUME CountInv, [Next]_vars PROVE CountInv'
  OBVIOUS
<1>1. CASE UNCHANGED <<i, polls>>
  BY <1>1 DEF CountInv
<1>2. CASE Fix
  <2>1. i' = 0 /\ polls' = <<TRUE, polls[1], polls[2]>>
    BY <1>2 DEF Fix, Polled
  <2> QED
    BY <2>1 DEF CountInv
<1>3. CASE MissTolerated
  <2>1. i' = i + 1 /\ i + 1 < 3 /\ polls' = <<FALSE, polls[1], polls[2]>>
    BY <1>3 DEF MissTolerated, Missed, Polled
  <2>2. polls'[2] = polls[1] /\ polls'[3] = polls[2]
    BY <2>1
  <2> QED
    BY <2>1, <2>2 DEF CountInv
<1>4. CASE MissShown
  BY <1>4 DEF MissShown, CountInv
<1>5. CASE Receiver \/ \E n \in 0 .. 3 : Key(n)
  BY <1>1, <1>5 DEF Receiver, Key
<1>6. CASE Default \/ EnterGps \/ Waited \/ \E n \in 1 .. 3 : DrawMenu(n)
  BY <1>1, <1>6 DEF Default, EnterGps, Waited, DrawMenu
<1> QED
  BY <1>1, <1>2, <1>3, <1>4, <1>5, <1>6 DEF Next, Main, vars

\* Only a fix seen at one of the last three polls puts data on the display,
\* in whatever order keys, sentences and the steps of the loop come.
THEOREM NoDataWithoutFix == Spec => DataNeedsFix
<1>1. Init => CountInv
  BY DEF Init, CountInv
<1>2. CountInv /\ [Next]_vars => CountInv'
  BY CountInductive
<1>3. CountInv /\ CountInv' /\ [Next]_vars =>
        [pc = "poll" /\ pc' = "switch" => \E n \in 1 .. 3 : polls'[n] = TRUE]_vars
  <2> SUFFICES ASSUME CountInv', Next, pc = "poll", pc' = "switch"
               PROVE  \E n \in 1 .. 3 : polls'[n] = TRUE
    OBVIOUS
  <2>1. CASE Fix
    <3>1. i' = 0
      BY <2>1 DEF Fix
    <3> QED
      BY <3>1 DEF CountInv
  <2>2. CASE MissTolerated
    <3>1. i' # 3
      BY <2>2 DEF MissTolerated
    <3> QED
      BY <3>1 DEF CountInv
  <2>3. CASE ~(Fix \/ MissTolerated)
    BY <2>3 DEF Next, Main, Key, Receiver, Default, DrawMenu, EnterGps,
                MissShown, Waited
  <2> QED
    BY <2>1, <2>2, <2>3
<1> QED
  BY <1>1, <1>2, <1>3, PTL DEF Spec, DataNeedsFix

-----------------------------------------------------------------------------
(* What can be read on the display *)

MenuTexts    == {"navegation", "temperature", "driving"}
LoadingTexts == {"loading", "nofix"}

\* Where a text may stand, and what main has still to do before data is drawn
\* beside it: enter a menu for the first time, or leave the wait for a fix.
Placed(r, t) ==
    \/ t[1] \in DataTexts
    \/ t[1] \in MenuTexts /\ r = 0
    \/ t[1] = "press" /\ r = 1 /\ pc = "switch" /\ firstPressed = 0 .. 3
    \/ t[1] \in LoadingTexts /\ r # 0 /\ i = 3 /\ (pc = "wait" \/ gpsFixflag = FALSE)

IsDisplay(d) == d = [r \in Rows |-> d[r]]

\* No text of the first row is longer than the time, so that the time hides it.
ScreenInv ==
    /\ IsDisplay(screen)
    /\ \A r \in Rows : \A t \in screen[r] : Placed(r, t)
    /\ \A t \in screen[0] : t[2] \in 0 .. 19

\* Main is in the GPS menu only after a key, and the fix it waits for is one
\* whose loss it has drawn.
FlowInv ==
    /\ pc \in {"switch", "poll", "wait"}
    /\ Index = -1 => pc = "switch" /\ firstPressed = 0 .. 3
    /\ gpsFixflag \in BOOLEAN
    /\ pc = "wait" => shown = "loading" /\ i = 3

CleanInv == FlowInv /\ ScreenInv /\ DataScreenClean

\* What a text written from the first column leaves of its row and of others.
LEMMA PrintedRows ==
  ASSUME NEW d, IsDisplay(d), NEW r \in Rows, NEW text, NEW w
  PROVE  /\ IsDisplay(Printed(d, r, text, w))
         /\ Printed(d, r, text, w)[r] = {<<text, w>>} \cup {t \in d[r] : t[2] > w}
         /\ \A q \in Rows \ {r} : Printed(d, r, text, w)[q] = d[q]
  BY DEF IsDisplay, Printed

\* Three lines of data leave only data on a display whose other rows have none
\* but data and whose first row has no text longer than the time.
LEMMA DataCovers ==
  ASSUME NEW d, IsDisplay(d), \A t \in d[0] : t[2] \in 0 .. 19,
         \A r \in Rows \ {0} : \A t \in d[r] : t[1] \in DataTexts,
         NEW e \in Data(d)
  PROVE  /\ IsDisplay(e)
         /\ \A r \in Rows : \A t \in e[r] : t[1] \in DataTexts
         /\ \A t \in e[0] : t[2] \in 0 .. 19
<1> PICK s \in SatsWidth, v \in SpeedWidth :
         e = Printed(Printed(Printed(d, 0, "time", 19), 1, "sats", s), 2, "speed", v)
  BY DEF Data
<1> DEFINE d1 == Printed(d, 0, "time", 19)
           d2 == Printed(d1, 1, "sats", s)
<1>r. {0, 1, 2, 3} = Rows
  BY DEF Rows
<1>1. IsDisplay(d1) /\ d1[0] = {<<"time", 19>>} \cup {t \in d[0] : t[2] > 19}
      /\ \A q \in Rows \ {0} : d1[q] = d[q]
  BY <1>r, PrintedRows
<1>2. d1[0] = {<<"time", 19>>}
  BY <1>1
<1> HIDE DEF d1
<1>3. IsDisplay(d2) /\ d2[1] = {<<"sats", s>>} \cup {t \in d1[1] : t[2] > s}
      /\ \A q \in Rows \ {1} : d2[q] = d1[q]
  BY <1>1, <1>r, PrintedRows
<1> HIDE DEF d2
<1>4. IsDisplay(e) /\ e[2] = {<<"speed", v>>} \cup {t \in d2[2] : t[2] > v}
      /\ \A q \in Rows \ {2} : e[q] = d2[q]
  <2>1. e = Printed(d2, 2, "speed", v)
    BY DEF d1, d2
  <2> QED
    BY <2>1, <1>3, <1>r, PrintedRows
<1>5. e[0] = {<<"time", 19>>}
  BY <1>2, <1>3, <1>4, <1>r
<1>6. \A t \in e[1] : t[1] \in DataTexts
  <2>1. e[1] = {<<"sats", s>>} \cup {t \in d[1] : t[2] > s}
    BY <1>1, <1>3, <1>4, <1>r
  <2> QED
    BY <2>1, <1>r DEF DataTexts
<1>7. \A t \in e[2] : t[1] \in DataTexts
  <2>1. e[2] = {<<"speed", v>>} \cup {t \in d[2] : t[2] > v}
    BY <1>1, <1>3, <1>4, <1>r
  <2> QED
    BY <2>1, <1>r DEF DataTexts
<1>8. e[3] = d[3]
  BY <1>1, <1>3, <1>4, <1>r
<1> QED
  BY <1>4, <1>5, <1>6, <1>7, <1>8, <1>r DEF DataTexts

\* A display that main draws data on needs no clearing, or it is cleared first.
LEMMA DrawDataStep ==
  ASSUME CleanInv, pc = "poll", NEW d, DrawData(d), Index' = Index,
         gpsFixflag' \in BOOLEAN,
         d = Blank \/ (d = screen /\ (i # 3 \/ gpsFixflag = TRUE))
  PROVE  CleanInv'
<1>1. IsDisplay(d) /\ \A t \in d[0] : t[2] \in 0 .. 19
  BY DEF CleanInv, ScreenInv, IsDisplay, Blank, Rows
<1>2. \A r \in Rows \ {0} : \A t \in d[r] : t[1] \in DataTexts
  <2>1. CASE d = Blank
    BY <2>1 DEF Blank
  <2>2. CASE d = screen /\ (i # 3 \/ gpsFixflag = TRUE)
    BY <2>2 DEF CleanInv, ScreenInv, Placed
  <2> QED
    BY <2>1, <2>2
<1>3. screen' \in Data(d)
  BY DEF DrawData
<1>4. /\ IsDisplay(screen')
      /\ \A r \in Rows : \A t \in screen'[r] : t[1] \in DataTexts
      /\ \A t \in screen'[0] : t[2] \in 0 .. 19
  BY <1>1, <1>2, <1>3, DataCovers
<1>5. ScreenInv'
  BY <1>4 DEF ScreenInv, Placed
<1>6. FlowInv'
  BY DEF CleanInv, FlowInv, DrawData
<1> QED
  BY <1>4, <1>5, <1>6 DEF CleanInv, DataScreenClean

LEMMA CleanInductive == CleanInv /\ [Next]_vars => CleanInv'
<1> SUFFICES ASSUME CleanInv, [Next]_vars PROVE CleanInv'
  OBVIOUS
<1>r. {0, 1, 2, 3} = Rows
  BY DEF Rows
<1>1. ASSUME UNCHANGED <<pc, i, firstPressed, gpsFixflag, screen, shown>>,
             Index' = Index \/ Index' \in 0 .. 3
      PROVE  CleanInv'
  BY <1>1 DEF CleanInv, FlowInv, ScreenInv, IsDisplay, Placed, DataScreenClean
<1>2. CASE Default
  <2>1. /\ IsDisplay(screen')
        /\ screen'[1] = {<<"press", 18>>} \cup {t \in screen[1] : t[2] > 18}
        /\ \A q \in Rows \ {1} : screen'[q] = screen[q]
    BY <1>2, <1>r, PrintedRows DEF Default, CleanInv, ScreenInv
  <2>2. ScreenInv'
    BY <1>2, <2>1, <1>r DEF Default, CleanInv, ScreenInv, FlowInv, Placed
  <2> QED
    BY <1>2, <2>2 DEF Default, CleanInv, FlowInv, DataScreenClean
<1>3. ASSUME NEW k \in 1 .. 3, DrawMenu(k) PROVE CleanInv'
  <2> DEFINE d == IF k \in firstPressed THEN Blank ELSE screen
  <2>1. /\ Menu[k].name \in MenuTexts /\ Menu[k].width \in 0 .. 19
    <3>1. k = 1 \/ k = 2 \/ k = 3
      OBVIOUS
    <3> QED
      BY <3>1 DEF Menu, MenuTexts
  <2>2. /\ IsDisplay(d) /\ \A t \in d[0] : t[2] \in 0 .. 19
        /\ \A r \in Rows : \A t \in d[r] : Placed(r, t) /\ t[1] # "press"
    <3>1. CASE k \in firstPressed
      BY <3>1 DEF IsDisplay, Blank, Rows
    <3>2. CASE k \notin firstPressed
      <4>1. firstPressed # 0 .. 3
        BY <3>2
      <4>2. d = screen
        BY <3>2
      <4>3. ASSUME NEW r \in Rows, NEW t \in screen[r] PROVE t[1] # "press"
        BY <4>1 DEF CleanInv, ScreenInv, Placed, DataTexts, MenuTexts, LoadingTexts
      <4> QED
        BY <4>2, <4>3 DEF CleanInv, ScreenInv
    <3> QED
      BY <3>1, <3>2
  <2>3. screen' = Printed(d, 0, Menu[k].name, Menu[k].width)
    BY <1>3 DEF DrawMenu
  <2> HIDE DEF d
  <2>4. /\ IsDisplay(screen')
        /\ screen'[0] = {<<Menu[k].name, Menu[k].width>>}
                            \cup {t \in d[0] : t[2] > Menu[k].width}
        /\ \A q \in Rows \ {0} : screen'[q] = d[q]
    BY <2>2, <2>3, <1>r, PrintedRows
  <2>5. UNCHANGED <<Index, pc, i, gpsFixflag>> /\ pc = "switch" /\ Index = k
        /\ shown' = Menu[k].name /\ firstPressed' = firstPressed \ {k}
    BY <1>3 DEF DrawMenu
  <2>6. ScreenInv'
    <3>1. ASSUME NEW r \in Rows, NEW t \in screen'[r] PROVE Placed(r, t)'
      <4>1. CASE r = 0 /\ t = <<Menu[k].name, Menu[k].width>>
        BY <4>1, <2>1 DEF Placed
      <4>2. CASE t \in d[r]
        BY <4>2, <2>2, <2>5 DEF Placed
      <4> QED
        BY <4>1, <4>2, <2>4, <3>1
    <3>2. \A t \in screen'[0] : t[2] \in 0 .. 19
      BY <2>1, <2>2, <2>4
    <3> QED
      BY <3>1, <3>2, <2>4 DEF ScreenInv
  <2>7. DataScreenClean'
    BY <2>1, <2>5 DEF DataScreenClean, MenuTexts
  <2> QED
    BY <2>5, <2>6, <2>7 DEF CleanInv, FlowInv
<1>4. CASE EnterGps
  <2>1. screen' = Blank \/ (screen' = screen /\ firstPressed # 0 .. 3)
    BY <1>4 DEF EnterGps
  <2>2. ScreenInv'
    <3>1. CASE screen' = Blank
      BY <3>1 DEF ScreenInv, Placed, IsDisplay, Blank, Rows
    <3>2. CASE screen' = screen /\ firstPressed # 0 .. 3
      BY <3>2, <1>4 DEF EnterGps, CleanInv, ScreenInv, Placed, IsDisplay
    <3> QED
      BY <2>1, <3>1, <3>2
  <2> QED
    BY <1>4, <2>2 DEF EnterGps, CleanInv, FlowInv, DataScreenClean
<1>5. CASE Fix
  BY <1>5, DrawDataStep DEF Fix, CleanInv, FlowInv
<1>6. CASE MissTolerated
  <2>1. i # 3
    BY <1>6 DEF MissTolerated
  <2> QED
    BY <1>6, <2>1, DrawDataStep DEF MissTolerated, Missed, CleanInv, FlowInv
<1>7. CASE MissShown
  <2> DEFINE d == IF firstExecflag \/ ~gpsFixflag THEN Blank ELSE screen
             d1 == Printed(d, 1, "loading", 19)
  <2>1. /\ IsDisplay(d) /\ \A t \in d[0] : t[2] \in 0 .. 19
        /\ \A r \in Rows : \A t \in d[r] : Placed(r, t)
    <3>1. CASE firstExecflag \/ ~gpsFixflag
      BY <3>1 DEF IsDisplay, Blank, Rows
    <3>2. CASE ~(firstExecflag \/ ~gpsFixflag)
      BY <3>2 DEF CleanInv, ScreenInv
    <3> QED
      BY <3>1, <3>2
  <2>2. screen' = Printed(d1, 2, "nofix", 17)
    BY <1>7 DEF MissShown, Loading
  <2> HIDE DEF d
  <2>3. IsDisplay(d1) /\ d1[1] = {<<"loading", 19>>} \cup {t \in d[1] : t[2] > 19}
        /\ \A q \in Rows \ {1} : d1[q] = d[q]
    BY <2>1, <1>r, PrintedRows
  <2> HIDE DEF d1
  <2>4. IsDisplay(screen')
        /\ screen'[2] = {<<"nofix", 17>>} \cup {t \in d1[2] : t[2] > 17}
        /\ \A q \in Rows \ {2} : screen'[q] = d1[q]
    BY <2>2, <2>3, <1>r, PrintedRows
  <2>5. pc = "poll" /\ pc' = "wait" /\ i' = 3 /\ shown' = "loading"
        /\ UNCHANGED <<Index, firstPressed, gpsFixflag>>
    BY <1>7 DEF MissShown, Missed
  <2>6. ScreenInv'
    <3>1. ASSUME NEW r \in Rows, NEW t \in screen'[r] PROVE Placed(r, t)'
      <4>1. CASE r # 0 /\ t[1] \in LoadingTexts
        BY <4>1, <2>5 DEF Placed
      <4>2. CASE t \in d[r]
        BY <4>2, <2>1, <2>5 DEF Placed
      <4>3. t \in d[r] \/ (r # 0 /\ t[1] \in LoadingTexts)
        BY <3>1, <2>3, <2>4, <1>r DEF LoadingTexts
      <4> QED
        BY <4>1, <4>2, <4>3
    <3>2. screen'[0] = d[0]
      BY <2>3, <2>4, <1>r
    <3> QED
      BY <3>1, <3>2, <2>1, <2>4 DEF ScreenInv
  <2> QED
    BY <2>5, <2>6 DEF CleanInv, FlowInv, DataScreenClean
<1>8. CASE Waited
  <2>1. ScreenInv'
    BY <1>8 DEF Waited, CleanInv, FlowInv, ScreenInv, Placed, IsDisplay
  <2> QED
    BY <1>8, <2>1 DEF Waited, CleanInv, FlowInv, DataScreenClean
<1>9. CASE Receiver \/ UNCHANGED vars \/ \E k \in 0 .. 3 : Key(k)
  BY <1>1, <1>9 DEF Receiver, Key, vars
<1> QED
  BY <1>2, <1>3, <1>4, <1>5, <1>6, <1>7, <1>8, <1>9 DEF Next, Main

\* Data is never drawn beside what is left of another screen, although main
\* hardly ever clears the display, whatever the lengths of the two lines, and
\* whenever keys are pressed and fixes are lost and found.
THEOREM DataStandsAlone == Spec => []DataScreenClean
<1>1. Init => CleanInv
  BY DEF Init, CleanInv, FlowInv, ScreenInv, DataScreenClean, IsDisplay, Blank, Rows
<1>2. CleanInv => DataScreenClean
  BY DEF CleanInv
<1> QED
  BY <1>1, <1>2, CleanInductive, PTL DEF Spec

=============================================================================
