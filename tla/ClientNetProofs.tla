--------------------------- MODULE ClientNetProofs ---------------------------
(***************************************************************************)
(* Proofs about ClientNet, for any set of addresses.                       *)
(*                                                                         *)
(* The properties speak of moments (Run has returned, a route is in        *)
(* place); the invariant says for every label what Run has put in place by *)
(* then: routes (Routing), policy rules (Ruling), files (Saving, Naming).  *)
(***************************************************************************)
EXTENDS ClientNet, TLAPS

\* Labels from the host route to its removal, and those of the rest of full mode.
Pinning == {"low", "high", "backup", "repoint", "undoLow", "undoHigh", "unpinning"}

FullLabels == Pinning \cup {"routing", "pinning", "restoring", "removing"}

\* Run has routes in place, or is adding or deleting them.
Holding == pc \in Pinning \/ (pc = "running" /\ mode = "full")

Routing ==
  /\ pc \in FullLabels => mode = "full"
  /\ Holding => pinned
  /\ pinned => Holding \/ "host" \in missed
  /\ half # {} => Holding \/ pc \in {"restoring", "removing", "closing"}
  /\ pc = "undoHigh" => half \subseteq {"high"} \cup missed
  /\ pc \in {"unpinning", "restoring", "removing", "closing"} => half \subseteq missed

Ruling ==
  /\ pc \notin {"stopped", "dialing"} => addr \in Addr
  /\ pc \in {"stopped", "dialing", "opening"} => ~tun
  /\ pc \in {"stopped", "dialing", "opening"} => table = NoAddr
  /\ pc \in {"loosening", "tabling", "unstacking", "ruling", "listening",
             "unruling", "flushing"} => mode = "socks"
  /\ rules \subseteq stray \cup {addr}
  /\ \/ rules \subseteq stray
     \/ pc \in {"listening", "unruling"}
     \/ pc = "running" /\ mode = "socks"

\* dnsBak is set from the backup to its removal, and only in full mode.
Saving ==
  /\ saved => pc \in {"repoint", "running", "undoLow", "undoHigh", "unpinning",
                      "restoring", "removing"}
  /\ saved => mode = "full"
  /\ pc \in {"restoring", "removing"} => saved
  /\ pc = "repoint" /\ found = "orig" => saved \/ resolv = "absent"

Settled == found = "orig" /\ past \cap {"stale", "badRestore"} = {}

\* Where the user's resolv.conf is, as long as nothing has gone wrong that
\* OriginalSurvives excludes.
Naming ==
  Settled =>
    /\ saved /\ pc # "removing" => bak = "orig"
    /\ pc = "removing" => resolv = "orig"
    /\ ~saved => resolv = "orig" \/ (bak = "orig" /\ "crashed" \in past)
    /\ pc \in Pinning /\ ~saved => resolv = "orig"
    /\ pc \in {"dialing", "opening", "configuring", "routing", "pinning"} =>
         resolv = "orig" \/ pinned
    /\ mode # "full" => resolv = "orig"
    /\ pc = "running" /\ ~saved => resolv = "orig"

IInv == TypeOK /\ Routing /\ Ruling /\ Saving /\ Naming

\* Types.
LEMMA TypeNext == IInv /\ [Next]_vars => TypeOK'
<1> SUFFICES ASSUME IInv, [Next]_vars PROVE TypeOK'
  OBVIOUS
<1> USE DEF IInv, TypeOK, Labels, Content, Half, Ruling, At, Goto, Fails,
            config, routes, policy, files, history
<1>1. CASE Start
  BY <1>1 DEF Start
<1>2. ASSUME NEW a \in Addr, Dialled(a) PROVE TypeOK'
  BY <1>2 DEF Dialled
<1>3. CASE DialFails
  BY <1>3 DEF DialFails
<1>4. CASE Opened
  BY <1>4 DEF Opened
<1>5. CASE OpenFails
  BY <1>5 DEF OpenFails
<1>6. CASE Configured
  BY <1>6 DEF Configured
<1>7. CASE ConfigureFails
  BY <1>7 DEF ConfigureFails
<1>8. CASE Routed
  BY <1>8 DEF Routed
<1>9. CASE RouteFails
  BY <1>9 DEF RouteFails
<1>10. CASE Pin
  BY <1>10 DEF Pin
<1>11. CASE PinFails
  BY <1>11 DEF PinFails
<1>12. ASSUME NEW h \in Half, AddHalf(h) PROVE TypeOK'
  BY <1>12 DEF AddHalf
<1>13. ASSUME NEW h \in Half, HalfFails(h) PROVE TypeOK'
  BY <1>13 DEF HalfFails
<1>14. CASE Backup
  <2>1. pc' \in Labels
    BY <1>14 DEF Backup
  <2>2. bak' \in Content
    BY <1>14 DEF Backup
  <2>3. saved' \in BOOLEAN
    BY <1>14 DEF Backup
  <2> QED
    BY <2>1, <2>2, <2>3, <1>14 DEF Backup
<1>15. CASE BackupFails
  BY <1>15 DEF BackupFails
<1>16. CASE Repoint
  BY <1>16 DEF Repoint
<1>17. CASE RepointFails
  BY <1>17 DEF RepointFails
<1>18. CASE Loosen
  <2>1. pc' \in Labels
    BY <1>18 DEF Loosen
  <2>2. loose' \in BOOLEAN
    BY <1>18 DEF Loosen
  <2> QED
    BY <2>1, <2>2, <1>18 DEF Loosen
<1>19. CASE TableRoute
  BY <1>19 DEF TableRoute
<1>20. CASE TableFails
  BY <1>20 DEF TableFails
<1>21. CASE Unstack
  BY <1>21 DEF Unstack
<1>22. CASE UnstackFails
  BY <1>22 DEF UnstackFails
<1>23. CASE AddRule
  <2>1. pc' \in Labels
    BY <1>23 DEF AddRule
  <2>2. rules' \subseteq Addr
    BY <1>23 DEF AddRule
  <2> QED
    BY <2>1, <2>2, <1>23 DEF AddRule
<1>24. CASE RuleFails
  BY <1>24 DEF RuleFails
<1>25. CASE Listening
  BY <1>25 DEF Listening
<1>26. CASE ListenFails
  BY <1>26 DEF ListenFails
<1>27. CASE UndoLow
  BY <1>27 DEF UndoLow, UndoHalf
<1>28. CASE UndoLowFails
  BY <1>28 DEF UndoLowFails, UndoHalfFails
<1>29. CASE UndoHigh
  BY <1>29 DEF UndoHigh, UndoHalf
<1>30. CASE UndoHighFails
  BY <1>30 DEF UndoHighFails, UndoHalfFails
<1>31. CASE Unpin
  <2>1. pc' \in Labels
    BY <1>31 DEF Unpin
  <2>2. pinned' \in BOOLEAN
    BY <1>31 DEF Unpin
  <2> QED
    BY <2>1, <2>2, <1>31 DEF Unpin
<1>32. CASE UnpinFails
  BY <1>32 DEF UnpinFails
<1>33. CASE Restore
  BY <1>33 DEF Restore
<1>34. CASE RestoreFails
  BY <1>34 DEF RestoreFails
<1>35. CASE RemoveBackup
  <2>1. pc' \in Labels
    BY <1>35 DEF RemoveBackup
  <2>2. bak' \in Content
    BY <1>35 DEF RemoveBackup
  <2>3. saved' \in BOOLEAN
    BY <1>35 DEF RemoveBackup
  <2> QED
    BY <2>1, <2>2, <2>3, <1>35 DEF RemoveBackup
<1>36. CASE RemoveFails
  <2>1. pc' \in Labels
    BY <1>36 DEF RemoveFails
  <2>2. saved' \in BOOLEAN
    BY <1>36 DEF RemoveFails
  <2> QED
    BY <2>1, <2>2, <1>36 DEF RemoveFails
<1>37. CASE Unrule
  BY <1>37 DEF Unrule
<1>38. CASE UnruleFails
  BY <1>38 DEF UnruleFails
<1>39. CASE Flush
  BY <1>39 DEF Flush
<1>40. CASE FlushFails
  BY <1>40 DEF FlushFails
<1>41. CASE CloseDevice
  <2>1. pc' \in Labels
    BY <1>41 DEF CloseDevice, DeviceGone
  <2>2. tun' \in BOOLEAN
    BY <1>41 DEF CloseDevice, DeviceGone
  <2>3. half' \subseteq Half /\ {table', addr'} \subseteq Addr \cup {NoAddr}
    BY <1>41 DEF CloseDevice, DeviceGone
  <2> QED
    BY <2>1, <2>2, <2>3, <1>41 DEF CloseDevice, DeviceGone
<1>42. CASE Stop
  BY <1>42 DEF Stop
<1>43. CASE Kill
  BY <1>43 DEF Kill, Gone, DeviceGone, CutShort
<1>44. CASE Reboot
  BY <1>44 DEF Reboot, Gone, DeviceGone, CutShort
<1>45. CASE CalmDown
  BY <1>45 DEF CalmDown
<1>46. CASE UNCHANGED vars
  BY <1>46 DEF vars
<1> QED
  BY <1>1, <1>2, <1>3, <1>4, <1>5, <1>6, <1>7, <1>8, <1>9, <1>10, <1>11, <1>12,
     <1>13, <1>14, <1>15, <1>16, <1>17, <1>18, <1>19, <1>20, <1>21, <1>22,
     <1>23, <1>24, <1>25, <1>26, <1>27, <1>28, <1>29, <1>30, <1>31, <1>32,
     <1>33, <1>34, <1>35, <1>36, <1>37, <1>38, <1>39, <1>40, <1>41, <1>42,
     <1>43, <1>44, <1>45, <1>46 DEF Next, Work

\* Routes: the host route is there before the first half route and until after the
\* last one.
LEMMA RoutingNext == IInv /\ [Next]_vars => Routing'
<1> SUFFICES ASSUME IInv, [Next]_vars PROVE Routing'
  OBVIOUS
<1> USE DEF IInv, TypeOK, Half, Routing, Holding, Pinning, FullLabels, Ruling,
            At, Goto, Fails, config, routes, policy, files, history
<1>1. CASE Start
  BY <1>1 DEF Start
<1>2. ASSUME NEW a \in Addr, Dialled(a) PROVE Routing'
  BY <1>2 DEF Dialled
<1>3. CASE DialFails
  BY <1>3 DEF DialFails
<1>4. CASE Opened
  BY <1>4 DEF Opened
<1>5. CASE OpenFails
  BY <1>5 DEF OpenFails
<1>6. CASE Configured
  BY <1>6 DEF Configured
<1>7. CASE ConfigureFails
  BY <1>7 DEF ConfigureFails
<1>8. CASE Routed
  BY <1>8 DEF Routed
<1>9. CASE RouteFails
  BY <1>9 DEF RouteFails
<1>10. CASE Pin
  BY <1>10 DEF Pin
<1>11. CASE PinFails
  BY <1>11 DEF PinFails
<1>12. ASSUME NEW h \in Half, AddHalf(h) PROVE Routing'
  BY <1>12 DEF AddHalf
<1>13. ASSUME NEW h \in Half, HalfFails(h) PROVE Routing'
  BY <1>13 DEF HalfFails
<1>14. CASE Backup
  BY <1>14 DEF Backup
<1>15. CASE BackupFails
  BY <1>15 DEF BackupFails
<1>16. CASE Repoint
  BY <1>16 DEF Repoint
<1>17. CASE RepointFails
  BY <1>17 DEF RepointFails
<1>18. CASE Loosen
  BY <1>18 DEF Loosen
<1>19. CASE TableRoute
  BY <1>19 DEF TableRoute
<1>20. CASE TableFails
  BY <1>20 DEF TableFails
<1>21. CASE Unstack
  BY <1>21 DEF Unstack
<1>22. CASE UnstackFails
  BY <1>22 DEF UnstackFails
<1>23. CASE AddRule
  BY <1>23 DEF AddRule
<1>24. CASE RuleFails
  BY <1>24 DEF RuleFails
<1>25. CASE Listening
  BY <1>25 DEF Listening
<1>26. CASE ListenFails
  BY <1>26 DEF ListenFails
<1>27. CASE UndoLow
  BY <1>27 DEF UndoLow, UndoHalf
<1>28. CASE UndoLowFails
  BY <1>28 DEF UndoLowFails, UndoHalfFails
<1>29. CASE UndoHigh
  BY <1>29 DEF UndoHigh, UndoHalf
<1>30. CASE UndoHighFails
  BY <1>30 DEF UndoHighFails, UndoHalfFails
<1>31. CASE Unpin
  BY <1>31 DEF Unpin
<1>32. CASE UnpinFails
  BY <1>32 DEF UnpinFails
<1>33. CASE Restore
  BY <1>33 DEF Restore
<1>34. CASE RestoreFails
  BY <1>34 DEF RestoreFails
<1>35. CASE RemoveBackup
  BY <1>35 DEF RemoveBackup
<1>36. CASE RemoveFails
  BY <1>36 DEF RemoveFails
<1>37. CASE Unrule
  BY <1>37 DEF Unrule
<1>38. CASE UnruleFails
  BY <1>38 DEF UnruleFails
<1>39. CASE Flush
  BY <1>39 DEF Flush
<1>40. CASE FlushFails
  BY <1>40 DEF FlushFails
<1>41. CASE CloseDevice
  BY <1>41 DEF CloseDevice, DeviceGone
<1>42. CASE Stop
  BY <1>42 DEF Stop
<1>43. CASE Kill
  BY <1>43 DEF Kill, Gone, DeviceGone, CutShort
<1>44. CASE Reboot
  BY <1>44 DEF Reboot, Gone, DeviceGone, CutShort
<1>45. CASE CalmDown
  BY <1>45 DEF CalmDown
<1>46. CASE UNCHANGED vars
  BY <1>46 DEF vars
<1> QED
  BY <1>1, <1>2, <1>3, <1>4, <1>5, <1>6, <1>7, <1>8, <1>9, <1>10, <1>11, <1>12,
     <1>13, <1>14, <1>15, <1>16, <1>17, <1>18, <1>19, <1>20, <1>21, <1>22,
     <1>23, <1>24, <1>25, <1>26, <1>27, <1>28, <1>29, <1>30, <1>31, <1>32,
     <1>33, <1>34, <1>35, <1>36, <1>37, <1>38, <1>39, <1>40, <1>41, <1>42,
     <1>43, <1>44, <1>45, <1>46 DEF Next, Work

\* The device, the socks table and the policy rule.
LEMMA RulingNext == IInv /\ [Next]_vars => Ruling'
<1> SUFFICES ASSUME IInv, [Next]_vars PROVE Ruling'
  OBVIOUS
<1> USE DEF IInv, TypeOK, Half, Ruling, Routing, Holding, FullLabels, Pinning,
            At, Goto, Fails, config, routes, policy, files, history
<1>1. CASE Start
  BY <1>1 DEF Start
<1>2. ASSUME NEW a \in Addr, Dialled(a) PROVE Ruling'
  BY <1>2 DEF Dialled
<1>3. CASE DialFails
  BY <1>3 DEF DialFails
<1>4. CASE Opened
  BY <1>4 DEF Opened
<1>5. CASE OpenFails
  BY <1>5 DEF OpenFails
<1>6. CASE Configured
  BY <1>6 DEF Configured
<1>7. CASE ConfigureFails
  BY <1>7 DEF ConfigureFails
<1>8. CASE Routed
  BY <1>8 DEF Routed
<1>9. CASE RouteFails
  BY <1>9 DEF RouteFails
<1>10. CASE Pin
  BY <1>10 DEF Pin
<1>11. CASE PinFails
  BY <1>11 DEF PinFails
<1>12. ASSUME NEW h \in Half, AddHalf(h) PROVE Ruling'
  BY <1>12 DEF AddHalf
<1>13. ASSUME NEW h \in Half, HalfFails(h) PROVE Ruling'
  BY <1>13 DEF HalfFails
<1>14. CASE Backup
  BY <1>14 DEF Backup
<1>15. CASE BackupFails
  BY <1>15 DEF BackupFails
<1>16. CASE Repoint
  BY <1>16 DEF Repoint
<1>17. CASE RepointFails
  BY <1>17 DEF RepointFails
<1>18. CASE Loosen
  BY <1>18 DEF Loosen
<1>19. CASE TableRoute
  BY <1>19 DEF TableRoute
<1>20. CASE TableFails
  BY <1>20 DEF TableFails
<1>21. CASE Unstack
  BY <1>21 DEF Unstack
<1>22. CASE UnstackFails
  BY <1>22 DEF UnstackFails
<1>23. CASE AddRule
  BY <1>23 DEF AddRule
<1>24. CASE RuleFails
  BY <1>24 DEF RuleFails
<1>25. CASE Listening
  BY <1>25 DEF Listening
<1>26. CASE ListenFails
  BY <1>26 DEF ListenFails
<1>27. CASE UndoLow
  BY <1>27 DEF UndoLow, UndoHalf
<1>28. CASE UndoLowFails
  BY <1>28 DEF UndoLowFails, UndoHalfFails
<1>29. CASE UndoHigh
  BY <1>29 DEF UndoHigh, UndoHalf
<1>30. CASE UndoHighFails
  BY <1>30 DEF UndoHighFails, UndoHalfFails
<1>31. CASE Unpin
  BY <1>31 DEF Unpin
<1>32. CASE UnpinFails
  BY <1>32 DEF UnpinFails
<1>33. CASE Restore
  BY <1>33 DEF Restore
<1>34. CASE RestoreFails
  BY <1>34 DEF RestoreFails
<1>35. CASE RemoveBackup
  BY <1>35 DEF RemoveBackup
<1>36. CASE RemoveFails
  BY <1>36 DEF RemoveFails
<1>37. CASE Unrule
  BY <1>37 DEF Unrule
<1>38. CASE UnruleFails
  BY <1>38 DEF UnruleFails
<1>39. CASE Flush
  BY <1>39 DEF Flush
<1>40. CASE FlushFails
  BY <1>40 DEF FlushFails
<1>41. CASE CloseDevice
  BY <1>41 DEF CloseDevice, DeviceGone
<1>42. CASE Stop
  BY <1>42 DEF Stop
<1>43. CASE Kill
  BY <1>43 DEF Kill, Gone, DeviceGone, CutShort
<1>44. CASE Reboot
  BY <1>44 DEF Reboot, Gone, DeviceGone, CutShort
<1>45. CASE CalmDown
  BY <1>45 DEF CalmDown
<1>46. CASE UNCHANGED vars
  BY <1>46 DEF vars
<1> QED
  BY <1>1, <1>2, <1>3, <1>4, <1>5, <1>6, <1>7, <1>8, <1>9, <1>10, <1>11, <1>12,
     <1>13, <1>14, <1>15, <1>16, <1>17, <1>18, <1>19, <1>20, <1>21, <1>22,
     <1>23, <1>24, <1>25, <1>26, <1>27, <1>28, <1>29, <1>30, <1>31, <1>32,
     <1>33, <1>34, <1>35, <1>36, <1>37, <1>38, <1>39, <1>40, <1>41, <1>42,
     <1>43, <1>44, <1>45, <1>46 DEF Next, Work

\* The flag dnsBak.
LEMMA SavingNext == IInv /\ [Next]_vars => Saving'
<1> SUFFICES ASSUME IInv, [Next]_vars PROVE Saving'
  OBVIOUS
<1> USE DEF IInv, TypeOK, Half, Routing, Holding, Pinning, FullLabels, Saving,
            At, Goto, Fails, config, routes, policy, files, history
<1>1. CASE Start
  BY <1>1 DEF Start
<1>2. ASSUME NEW a \in Addr, Dialled(a) PROVE Saving'
  BY <1>2 DEF Dialled
<1>3. CASE DialFails
  BY <1>3 DEF DialFails
<1>4. CASE Opened
  BY <1>4 DEF Opened
<1>5. CASE OpenFails
  BY <1>5 DEF OpenFails
<1>6. CASE Configured
  BY <1>6 DEF Configured
<1>7. CASE ConfigureFails
  BY <1>7 DEF ConfigureFails
<1>8. CASE Routed
  BY <1>8 DEF Routed
<1>9. CASE RouteFails
  BY <1>9 DEF RouteFails
<1>10. CASE Pin
  BY <1>10 DEF Pin
<1>11. CASE PinFails
  BY <1>11 DEF PinFails
<1>12. ASSUME NEW h \in Half, AddHalf(h) PROVE Saving'
  BY <1>12 DEF AddHalf
<1>13. ASSUME NEW h \in Half, HalfFails(h) PROVE Saving'
  BY <1>13 DEF HalfFails
<1>14. CASE Backup
  BY <1>14 DEF Backup
<1>15. CASE BackupFails
  BY <1>15 DEF BackupFails
<1>16. CASE Repoint
  BY <1>16 DEF Repoint
<1>17. CASE RepointFails
  BY <1>17 DEF RepointFails
<1>18. CASE Loosen
  BY <1>18 DEF Loosen
<1>19. CASE TableRoute
  BY <1>19 DEF TableRoute
<1>20. CASE TableFails
  BY <1>20 DEF TableFails
<1>21. CASE Unstack
  BY <1>21 DEF Unstack
<1>22. CASE UnstackFails
  BY <1>22 DEF UnstackFails
<1>23. CASE AddRule
  BY <1>23 DEF AddRule
<1>24. CASE RuleFails
  BY <1>24 DEF RuleFails
<1>25. CASE Listening
  BY <1>25 DEF Listening
<1>26. CASE ListenFails
  BY <1>26 DEF ListenFails
<1>27. CASE UndoLow
  BY <1>27 DEF UndoLow, UndoHalf
<1>28. CASE UndoLowFails
  BY <1>28 DEF UndoLowFails, UndoHalfFails
<1>29. CASE UndoHigh
  BY <1>29 DEF UndoHigh, UndoHalf
<1>30. CASE UndoHighFails
  BY <1>30 DEF UndoHighFails, UndoHalfFails
<1>31. CASE Unpin
  BY <1>31 DEF Unpin
<1>32. CASE UnpinFails
  BY <1>32 DEF UnpinFails
<1>33. CASE Restore
  BY <1>33 DEF Restore
<1>34. CASE RestoreFails
  BY <1>34 DEF RestoreFails
<1>35. CASE RemoveBackup
  BY <1>35 DEF RemoveBackup
<1>36. CASE RemoveFails
  BY <1>36 DEF RemoveFails
<1>37. CASE Unrule
  BY <1>37 DEF Unrule
<1>38. CASE UnruleFails
  BY <1>38 DEF UnruleFails
<1>39. CASE Flush
  BY <1>39 DEF Flush
<1>40. CASE FlushFails
  BY <1>40 DEF FlushFails
<1>41. CASE CloseDevice
  BY <1>41 DEF CloseDevice, DeviceGone
<1>42. CASE Stop
  BY <1>42 DEF Stop
<1>43. CASE Kill
  BY <1>43 DEF Kill, Gone, DeviceGone, CutShort
<1>44. CASE Reboot
  BY <1>44 DEF Reboot, Gone, DeviceGone, CutShort
<1>45. CASE CalmDown
  BY <1>45 DEF CalmDown
<1>46. CASE UNCHANGED vars
  BY <1>46 DEF vars
<1> QED
  BY <1>1, <1>2, <1>3, <1>4, <1>5, <1>6, <1>7, <1>8, <1>9, <1>10, <1>11, <1>12,
     <1>13, <1>14, <1>15, <1>16, <1>17, <1>18, <1>19, <1>20, <1>21, <1>22,
     <1>23, <1>24, <1>25, <1>26, <1>27, <1>28, <1>29, <1>30, <1>31, <1>32,
     <1>33, <1>34, <1>35, <1>36, <1>37, <1>38, <1>39, <1>40, <1>41, <1>42,
     <1>43, <1>44, <1>45, <1>46 DEF Next, Work

\* The user's resolv.conf, step by step through backup, rewrite and restore.
LEMMA NamingNext == IInv /\ [Next]_vars => Naming'
<1> SUFFICES ASSUME IInv, [Next]_vars PROVE Naming'
  OBVIOUS
<1> USE DEF IInv, TypeOK, Labels, Content, Half, Routing, Holding, Pinning,
            FullLabels, Ruling, Saving, Naming, Settled, At, Goto, Fails,
            config, routes, policy, files, history
<1>1. CASE Start
  BY <1>1 DEF Start
<1>2. ASSUME NEW a \in Addr, Dialled(a) PROVE Naming'
  BY <1>2 DEF Dialled
<1>3. CASE DialFails
  BY <1>3 DEF DialFails
<1>4. CASE Opened
  BY <1>4 DEF Opened
<1>5. CASE OpenFails
  BY <1>5 DEF OpenFails
<1>6. CASE Configured
  BY <1>6 DEF Configured
<1>7. CASE ConfigureFails
  BY <1>7 DEF ConfigureFails
<1>8. CASE Routed
  BY <1>8 DEF Routed
<1>9. CASE RouteFails
  BY <1>9 DEF RouteFails
<1>10. CASE Pin
  BY <1>10 DEF Pin
<1>11. CASE PinFails
  BY <1>11 DEF PinFails
<1>12. ASSUME NEW h \in Half, AddHalf(h) PROVE Naming'
  BY <1>12 DEF AddHalf
<1>13. ASSUME NEW h \in Half, HalfFails(h) PROVE Naming'
  BY <1>13 DEF HalfFails
<1>14. CASE Backup
  BY <1>14 DEF Backup
<1>15. CASE BackupFails
  BY <1>15 DEF BackupFails
<1>16. CASE Repoint
  BY <1>16 DEF Repoint
<1>17. CASE RepointFails
  BY <1>17 DEF RepointFails
<1>18. CASE Loosen
  BY <1>18 DEF Loosen
<1>19. CASE TableRoute
  BY <1>19 DEF TableRoute
<1>20. CASE TableFails
  BY <1>20 DEF TableFails
<1>21. CASE Unstack
  BY <1>21 DEF Unstack
<1>22. CASE UnstackFails
  BY <1>22 DEF UnstackFails
<1>23. CASE AddRule
  BY <1>23 DEF AddRule
<1>24. CASE RuleFails
  BY <1>24 DEF RuleFails
<1>25. CASE Listening
  BY <1>25 DEF Listening
<1>26. CASE ListenFails
  BY <1>26 DEF ListenFails
<1>27. CASE UndoLow
  BY <1>27 DEF UndoLow, UndoHalf
<1>28. CASE UndoLowFails
  BY <1>28 DEF UndoLowFails, UndoHalfFails
<1>29. CASE UndoHigh
  BY <1>29 DEF UndoHigh, UndoHalf
<1>30. CASE UndoHighFails
  BY <1>30 DEF UndoHighFails, UndoHalfFails
<1>31. CASE Unpin
  BY <1>31 DEF Unpin
<1>32. CASE UnpinFails
  BY <1>32 DEF UnpinFails
<1>33. CASE Restore
  BY <1>33 DEF Restore
<1>34. CASE RestoreFails
  BY <1>34 DEF RestoreFails
<1>35. CASE RemoveBackup
  BY <1>35 DEF RemoveBackup
<1>36. CASE RemoveFails
  BY <1>36 DEF RemoveFails
<1>37. CASE Unrule
  BY <1>37 DEF Unrule
<1>38. CASE UnruleFails
  BY <1>38 DEF UnruleFails
<1>39. CASE Flush
  BY <1>39 DEF Flush
<1>40. CASE FlushFails
  BY <1>40 DEF FlushFails
<1>41. CASE CloseDevice
  BY <1>41 DEF CloseDevice, DeviceGone
<1>42. CASE Stop
  BY <1>42 DEF Stop
<1>43. CASE Kill
  BY <1>43 DEF Kill, Gone, DeviceGone, CutShort
<1>44. CASE Reboot
  BY <1>44 DEF Reboot, Gone, DeviceGone, CutShort
<1>45. CASE CalmDown
  BY <1>45 DEF CalmDown
<1>46. CASE UNCHANGED vars
  BY <1>46 DEF vars
<1> QED
  BY <1>1, <1>2, <1>3, <1>4, <1>5, <1>6, <1>7, <1>8, <1>9, <1>10, <1>11, <1>12,
     <1>13, <1>14, <1>15, <1>16, <1>17, <1>18, <1>19, <1>20, <1>21, <1>22,
     <1>23, <1>24, <1>25, <1>26, <1>27, <1>28, <1>29, <1>30, <1>31, <1>32,
     <1>33, <1>34, <1>35, <1>36, <1>37, <1>38, <1>39, <1>40, <1>41, <1>42,
     <1>43, <1>44, <1>45, <1>46 DEF Next, Work

-----------------------------------------------------------------------------
\* The invariant holds at the first start.
LEMMA InitIInv == Init => IInv
  BY DEF Init, IInv, TypeOK, Labels, Content, Half, Routing, Holding,
         Pinning, FullLabels, Ruling, Saving, Naming, Settled

\* Every step of Run and of the environment keeps it.
LEMMA NextIInv == IInv /\ [Next]_vars => IInv'
  BY TypeNext, RoutingNext, RulingNext, SavingNext, NamingNext DEF IInv

\* The inductive invariant is one.
THEOREM Inductive == Spec => []IInv
  BY InitIInv, NextIInv, PTL DEF Spec

\* The variables keep their types; in particular Run works only with an address
\* that the server has assigned.
THEOREM TypeCorrect == Spec => []TypeOK
<1>1. IInv => TypeOK
  BY DEF IInv
<1> QED
  BY <1>1, Inductive, PTL

\* The half routes of SetupClientRoutes never stand without the host route to
\* the server, wherever set-up fails, the process is killed or the host reboots,
\* except where Teardown's own delete of that half route failed, and then only
\* until Run closes the device.
THEOREM NeverLoops == Spec => []NoLoop
<1>1. IInv => NoLoop
  BY DEF IInv, Routing, Holding, Pinning, NoLoop
<1> QED
  BY <1>1, Inductive, PTL

\* When Run returns, on any path through SetupClientRoutes, SetupSourceRoute, the
\* pumps and the Teardowns with any of their commands failing, the device and
\* what is bound to it are gone, a host route or rule is left only by its own
\* failed delete or a kill, and resolv.conf is back unless the restoring write
\* failed or a process was killed.
THEOREM AlwaysReverted == Spec => []Reverted
<1>1. IInv => Reverted
  BY DEF IInv, TypeOK, Routing, Holding, Pinning, Ruling, Saving, Naming,
         Settled, Reverted, At
<1> QED
  BY <1>1, Inductive, PTL

\* The user's resolv.conf is on the disk, in its place or as the backup of
\* setDNS, after any number of failures, kills and restarts that do not
\* overwrite the backup from a rewritten file.
THEOREM OriginalRecoverable == Spec => []OriginalSurvives
<1>1. IInv => OriginalSurvives
  BY DEF IInv, TypeOK, Saving, Naming, Settled, OriginalSurvives
<1> QED
  BY <1>1, Inductive, PTL
=============================================================================
