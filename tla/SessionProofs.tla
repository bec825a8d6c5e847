--------------------------- MODULE SessionProofs ----------------------------
(***************************************************************************)
(* Proofs about Session, for every choice of its constants.                *)
(*                                                                         *)
(* TypeOK and DialogueInv are inductive together and hold for every use of *)
(* the program.  SafetyInv is inductive under CautiousUse; NoLoss,         *)
(* JournalNamesDelivered and the refinement of Transfer follow from it.    *)
(* LearnedInv needs no more care than one mailbox for the deleting runs,   *)
(* and carries UidsMatchSelected.  TrackInv carries FetchedAreTracked, if  *)
(* all runs delete; it rests on NamesInv, names being unique.  SparesInv   *)
(* carries UidplusSparesOthers, under CautiousUse and without stray codes. *)
(* Each step lemma has one case for each action.                           *)
(***************************************************************************)
EXTENDS Session, TLAPS

USE DEF mailVars, histVars, noteVars, diskVars, jobVars, itemVars, wireVars
-----------------------------------------------------------------------------
\* Names built from a mailbox, a UIDVALIDITY and a UID are messages ...
LEMMA NameIsMessage ==
  ASSUME NEW m \in Mailboxes, NEW v \in Validities, NEW u \in UIDs
  PROVE  <<m, v, u>> \in Messages
  BY DEF Messages

\* ... and messages are made of these three.
LEMMA MessageParts ==
  ASSUME NEW x \in Messages
  PROVE  x[1] \in Mailboxes /\ x[2] \in Validities /\ x[3] \in UIDs
  BY DEF Messages

\* The initial state has the right types, and no dialogue is under way.
LEMMA InitType == Init => TypeOK /\ DialogueInv
  <1> SUFFICES ASSUME Init PROVE TypeOK /\ DialogueInv
    OBVIOUS
  <1>1. arrived \in SUBSET Messages
    BY NameIsMessage DEF Init
  <1>2. journal \in Journals \cup {NoJournal, Torn} /\ opt \in Options \cup {NoOption}
    BY DEF Init
  <1>3. FlagsOK
    <2>1. uidplus \in BOOLEAN
      BY DEF Init
    <2>2. needCleanup \in BOOLEAN /\ hasUidplus \in BOOLEAN /\ exists \in BOOLEAN /\ fullBody \in BOOLEAN /\ signaled \in BOOLEAN
      BY Zenon DEF Init
    <2> QED BY <2>1, <2>2, Zenon DEF FlagsOK
  <1>4. TypeOK
    BY <1>1, <1>2, <1>3, ConstantsAssumption DEF Init, TypeOK, Commands, Reading
  <1>5. DialogueInv
    BY ConstantsAssumption DEF Init, DialogueInv, OnMessages
  <1> QED BY <1>4, <1>5

\* Every step keeps the Boolean variables Boolean (a lemma of its own because
\* it takes another prover than the rest of TypeOK).
LEMMA FlagsStep ==
  ASSUME FlagsOK, [Next]_vars
  PROVE  FlagsOK'
  <1> USE DEF FlagsOK
  <1>1. CASE StartAny
    BY <1>1, Zenon DEF StartAny, Start, read_journal
  <1>2. CASE Destroy
    BY <1>2, Zenon DEF Destroy, write_journal, Gone
  <1>3. CASE Crash
    BY <1>3, Zenon DEF Crash, Fault, Gone
  <1>4. CASE \E left \in SUBSET UIDs : CrashInWrite(left)
    BY <1>4, Zenon DEF CrashInWrite, Fault, Gone
  <1>5. CASE RemoveTorn
    BY <1>5, Zenon DEF RemoveTorn
  <1>6. CASE InputArrives
    BY <1>6, Zenon DEF InputArrives, loopRest
  <1>7. CASE ConnectionLost
    BY <1>7, Zenon DEF ConnectionLost, loopRest, Fault
  <1>8. CASE do_read_eof
    BY <1>8, Zenon DEF do_read_eof, loopRest
  <1>9. CASE do_read_error
    BY <1>9, Zenon DEF do_read_error, LeaveLoop
  <1>10. CASE do_signal
    BY <1>10, Zenon DEF do_signal, do_quit, async_finish, loopRest, Fault
  <1>11. CASE do_signal_again
    BY <1>11, Zenon DEF do_signal_again, LeaveLoop, Fault
  <1>12. CASE RunReturns
    BY <1>12, Zenon DEF RunReturns, LeaveLoop
  <1>13. CASE imap_data_exists
    BY <1>13, Zenon DEF imap_data_exists, callRest, More, Rearm, InHandler
  <1>14. CASE imap_status_code_uidvalidity
    BY <1>14, Zenon DEF imap_status_code_uidvalidity, callRest, More, Rearm, InHandler
  <1>15. CASE \E u \in UIDs : imap_data_fetch_begin(u)
    BY <1>15, Zenon DEF imap_data_fetch_begin, fetch_begin, callRest, More, Rearm, InHandler
  <1>16. CASE \E u \in UIDs, parts \in SUBSET {"uid"} :
                imap_data_fetch_begin_unsolicited(u, parts)
    BY <1>16, Zenon DEF imap_data_fetch_begin_unsolicited, fetch_begin, Here, callRest, More,
       Rearm, InHandler
  <1>17. CASE simulate_error
    BY <1>17, Zenon DEF simulate_error, LeaveLoop, Fault, InHandler
  <1>18. CASE imap_uid
    BY <1>18, Zenon DEF imap_uid, callRest, More, Rearm, InHandler
  <1>19. CASE imap_body_section_inner
    BY <1>19, Zenon DEF imap_body_section_inner, callRest, More, Rearm, InHandler
  <1>20. CASE imap_body_section_end
    BY <1>20, Zenon DEF imap_body_section_end, callRest, More, Rearm, InHandler
  <1>21. CASE imap_data_fetch_end
    BY <1>21, Zenon DEF imap_data_fetch_end, callRest, More, Rearm, InHandler
  <1>22. CASE imap_data_fetch_end_without_uid
    BY <1>22, Zenon DEF imap_data_fetch_end_without_uid, InHandler, LeaveLoop
  <1>23. CASE do_post_login
    BY <1>23, Zenon DEF do_post_login, do_task, Send, Tagged, Rearm, InHandler
  <1>24. CASE cleanup_store
    BY <1>24, Zenon DEF cleanup_store, async_store, Send, Tagged, Rearm, InHandler
  <1>25. CASE cleanup_expunge
    BY <1>25, Zenon DEF cleanup_expunge, async_uid_or_simple_expunge, Send, Tagged, Rearm,
       InHandler
  <1>26. CASE cleanup_finish
    BY <1>26, Zenon DEF cleanup_finish, do_task, Send, Tagged, Rearm, InHandler
  <1>27. CASE task_selected
    BY <1>27, Zenon DEF task_selected, async_fetch, async_logout, Send, Tagged, Rearm,
       InHandler
  <1>28. CASE task_fetched
    BY <1>28, Zenon DEF task_fetched, async_store, async_logout, Send, Tagged, Rearm, InHandler
  <1>29. CASE task_stored
    BY <1>29, Zenon DEF task_stored, async_uid_or_simple_expunge, Send, Tagged, Rearm,
       InHandler
  <1>30. CASE task_expunged
    BY <1>30, Zenon DEF task_expunged, async_logout, Send, Tagged, Rearm, InHandler
  <1>31. CASE task_listed
    BY <1>31, Zenon DEF task_listed, async_logout, Send, Tagged, Rearm, InHandler
  <1>32. CASE task_logged_out
    BY <1>32, Zenon DEF task_logged_out, do_quit, async_finish, loopRest, Tagged, Rearm, InHandler
  <1>33. CASE empty_sequence
    BY <1>33, Zenon DEF empty_sequence, NeedsSequence, Tagged, InHandler, LeaveLoop
  <1>34. CASE imap_tagged_status_failed
    BY <1>34, Zenon DEF imap_tagged_status_failed, InHandler, LeaveLoop, Fault
  <1>35. CASE ServerSelect
    BY <1>35, Zenon DEF ServerSelect, Execute, serverRest
  <1>36. CASE ServerFetch
    BY <1>36, Zenon DEF ServerFetch, Execute, serverRest, Here
  <1>37. CASE ServerStore
    BY <1>37, Zenon DEF ServerStore, Execute, serverRest, Here, Name
  <1>38. CASE ServerExpunge
    BY <1>38, Zenon DEF ServerExpunge, Execute, serverRest, Here, Name
  <1>39. CASE ServerOther
    BY <1>39, Zenon DEF ServerOther, Execute, serverRest
  <1>40. CASE \E m \in Mailboxes, u \in UIDs : Arrive(m, u)
    BY <1>40, Zenon DEF Arrive, clientVars
  <1>41. CASE \E x \in present : OtherDeletes(x)
    BY <1>41, Zenon DEF OtherDeletes, clientVars, Fault
  <1>42. CASE \E m \in Mailboxes : OtherExpunges(m)
    BY <1>42, Zenon DEF OtherExpunges, clientVars, Fault
  <1>43. CASE \E m \in Mailboxes, v \in Validities : Renumber(m, v)
    BY <1>43, ZenonT(40) DEF Renumber, clientVars, Fault
  <1>44. CASE UNCHANGED vars
    BY <1>44, Zenon DEF vars
  <1>45. CASE imap_capability
    BY <1>45, Zenon DEF imap_capability, listRest, More, Rearm, InHandler
  <1>46. CASE imap_status_code_capability_begin
    BY <1>46, Zenon DEF imap_status_code_capability_begin, listRest, More, Rearm, InHandler
  <1>47. CASE ServerLogin
    BY <1>47, Zenon DEF ServerLogin, Execute, serverRest
  <1> QED
    BY <1>1, <1>2, <1>3, <1>4, <1>5, <1>6, <1>7, <1>8, <1>9, <1>10, <1>11,
       <1>12, <1>13, <1>14, <1>15, <1>16, <1>17, <1>18, <1>19, <1>20, <1>21,
       <1>22, <1>23, <1>24, <1>25, <1>26, <1>27, <1>28, <1>29, <1>30, <1>31,
       <1>32, <1>33, <1>34, <1>35, <1>36, <1>37, <1>38, <1>39, <1>40, <1>41,
       <1>42, <1>43, <1>44, <1>45, <1>46,
       <1>47
       DEF Next, Progress, resume, Mishap, Others, Callback, Continue, Serve

\* Every step keeps the other types.
LEMMA TypeStep ==
  ASSUME TypeOK, DialogueInv, FlagsOK', [Next]_vars
  PROVE  TypeOK'
  <1> USE ConstantsAssumption DEF TypeOK, DialogueInv, Commands, CleanupCommands, TaskCommands,
          OnMessages, Reading, Journals, ServerAnswers
  <1>1. CASE StartAny
    <2> PICK o \in Options : Start(o)
      BY <1>1 DEF StartAny
    <2>1. CASE journal = NoJournal
      BY <2>1 DEF Start, read_journal, NoJournal
    <2>2. CASE journal # NoJournal
      BY <2>2 DEF Start, read_journal
    <2> QED BY <2>1, <2>2
  <1>2. CASE Destroy
    BY <1>2 DEF Destroy, write_journal, Gone
  <1>3. CASE Crash
    BY <1>3 DEF Crash, Fault, Gone
  <1>4. CASE \E left \in SUBSET UIDs : CrashInWrite(left)
    BY <1>4 DEF CrashInWrite, Fault, Gone
  <1>5. CASE RemoveTorn
    BY <1>5 DEF RemoveTorn
  <1>6. CASE InputArrives
    BY <1>6 DEF InputArrives, loopRest
  <1>7. CASE ConnectionLost
    BY <1>7 DEF ConnectionLost, loopRest, Fault
  <1>8. CASE do_read_eof
    BY <1>8 DEF do_read_eof, loopRest
  <1>9. CASE do_read_error
    BY <1>9 DEF do_read_error, LeaveLoop
  <1>10. CASE do_signal
    BY <1>10 DEF do_signal, do_quit, async_finish, loopRest, Fault
  <1>11. CASE do_signal_again
    BY <1>11 DEF do_signal_again, LeaveLoop, Fault
  <1>12. CASE RunReturns
    BY <1>12 DEF RunReturns, LeaveLoop
  <1>13. CASE imap_data_exists
    BY <1>13 DEF imap_data_exists, callRest, More, Rearm, InHandler
  <1>14. CASE imap_status_code_uidvalidity
    BY <1>14 DEF imap_status_code_uidvalidity, callRest, More, Rearm, InHandler
  <1>15. CASE \E u \in UIDs : imap_data_fetch_begin(u)
    BY <1>15 DEF imap_data_fetch_begin, fetch_begin, callRest, More, Rearm, InHandler
  <1>16. CASE \E u \in UIDs, parts \in SUBSET {"uid"} :
                imap_data_fetch_begin_unsolicited(u, parts)
    BY <1>16 DEF imap_data_fetch_begin_unsolicited, fetch_begin, Here, callRest, More,
       Rearm, InHandler
  <1>17. CASE simulate_error
    BY <1>17 DEF simulate_error, LeaveLoop, Fault, InHandler
  <1>18. CASE imap_uid
    <2>1. Name(cur) \in Messages
      BY <1>18, NameIsMessage DEF imap_uid, InHandler, Name
    <2> QED BY <1>18, <2>1 DEF imap_uid, callRest, More, Rearm
  <1>19. CASE imap_body_section_inner
    BY <1>19 DEF imap_body_section_inner, callRest, More, Rearm, InHandler
  <1>20. CASE imap_body_section_end
    <2>1. Name(cur) \in Messages
      BY <1>20, NameIsMessage DEF imap_body_section_end, InHandler, Name
    <2> QED BY <1>20, <2>1 DEF imap_body_section_end, callRest, More, Rearm
  <1>21. CASE imap_data_fetch_end
    <2>1. Name(cur) \in Messages
      BY <1>21, NameIsMessage DEF imap_data_fetch_end, InHandler, Name
    <2> QED BY <1>21, <2>1 DEF imap_data_fetch_end, callRest, More, Rearm
  <1>22. CASE imap_data_fetch_end_without_uid
    BY <1>22 DEF imap_data_fetch_end_without_uid, InHandler, LeaveLoop
  <1>23. CASE do_post_login
    BY <1>23 DEF do_post_login, do_task, Send, Tagged, Rearm, InHandler
  <1>24. CASE cleanup_store
    BY <1>24 DEF cleanup_store, async_store, Send, Tagged, Rearm, InHandler
  <1>25. CASE cleanup_expunge
    BY <1>25 DEF cleanup_expunge, async_uid_or_simple_expunge, Send, Tagged, Rearm,
       InHandler
  <1>26. CASE cleanup_finish
    BY <1>26 DEF cleanup_finish, do_task, Send, Tagged, Rearm, InHandler
  <1>27. CASE task_selected
    BY <1>27, ZenonT(40) DEF task_selected, async_fetch, async_logout, Send, Tagged, Rearm,
       InHandler
  <1>28. CASE task_fetched
    BY <1>28, ZenonT(40) DEF task_fetched, async_store, async_logout, Send, Tagged, Rearm, InHandler
  <1>29. CASE task_stored
    BY <1>29 DEF task_stored, async_uid_or_simple_expunge, Send, Tagged, Rearm,
       InHandler
  <1>30. CASE task_expunged
    BY <1>30 DEF task_expunged, async_logout, Send, Tagged, Rearm, InHandler
  <1>31. CASE task_listed
    BY <1>31 DEF task_listed, async_logout, Send, Tagged, Rearm, InHandler
  <1>32. CASE task_logged_out
    BY <1>32 DEF task_logged_out, do_quit, async_finish, loopRest, Tagged, Rearm, InHandler
  <1>33. CASE empty_sequence
    BY <1>33 DEF empty_sequence, NeedsSequence, Tagged, InHandler, LeaveLoop
  <1>34. CASE imap_tagged_status_failed
    BY <1>34 DEF imap_tagged_status_failed, InHandler, LeaveLoop, Fault
  <1>35. CASE ServerSelect
    BY <1>35 DEF ServerSelect, Execute, serverRest
  <1>36. CASE ServerFetch
    BY <1>36 DEF ServerFetch, Execute, serverRest, Here
  <1>37. CASE ServerStore
    <2>1. {Name(u) : u \in arg \cap Here} \subseteq present
      BY DEF Here
    <2> QED BY <1>37, <2>1 DEF ServerStore, Execute, serverRest
  <1>38. CASE ServerExpunge
    BY <1>38 DEF ServerExpunge, Execute, serverRest, Here, Name
  <1>39. CASE ServerOther
    BY <1>39 DEF ServerOther, Execute, serverRest
  <1>40. CASE \E m \in Mailboxes, u \in UIDs : Arrive(m, u)
    <2> PICK m \in Mailboxes, u \in UIDs : Arrive(m, u)
      BY <1>40
    <2>1. <<m, validity[m], u>> \in Messages
      BY NameIsMessage
    <2> QED BY <2>1 DEF Arrive, clientVars
  <1>41. CASE \E x \in present : OtherDeletes(x)
    BY <1>41 DEF OtherDeletes, clientVars, Fault
  <1>42. CASE \E m \in Mailboxes : OtherExpunges(m)
    BY <1>42 DEF OtherExpunges, clientVars, Fault
  <1>43. CASE \E m \in Mailboxes, v \in Validities : Renumber(m, v)
    <2> PICK m \in Mailboxes, v \in Validities : Renumber(m, v)
      BY <1>43
    <2> DEFINE old == {x \in present : x[1] = m}
               new == {<<m, v, x[3]>> : x \in old}
    <2>1. new \subseteq Messages
      <3> SUFFICES ASSUME NEW x \in present PROVE <<m, v, x[3]>> \in Messages
        OBVIOUS
      <3>1. x[3] \in UIDs
        BY MessageParts
      <3> QED BY <3>1, NameIsMessage
    <2>2. /\ arrived' = arrived \cup new
          /\ present' = (present \ old) \cup new
          /\ deleted' = deleted \ old
          /\ abandoned' = abandoned \cup old
          /\ validity' = [validity EXCEPT ![m] = v]
          /\ faults' \in 0..MaxFaults
          /\ UNCHANGED clientVars
      BY DEF Renumber, Fault
    <2>3. deleted' \in SUBSET present'
      BY <2>2
    <2> HIDE DEF new
    <2>4. abandoned' \in SUBSET Messages
      BY <2>2
    <2> HIDE DEF old
    <2> QED BY <2>1, <2>2, <2>3, <2>4 DEF clientVars
  <1>44. CASE UNCHANGED vars
    BY <1>44 DEF vars
  <1>45. CASE imap_capability
    BY <1>45 DEF imap_capability, listRest, More, Rearm, InHandler
  <1>46. CASE imap_status_code_capability_begin
    BY <1>46 DEF imap_status_code_capability_begin, listRest, More, Rearm, InHandler
  <1>47. CASE ServerLogin
    BY <1>47 DEF ServerLogin, Execute, serverRest
  <1> QED
    BY <1>1, <1>2, <1>3, <1>4, <1>5, <1>6, <1>7, <1>8, <1>9, <1>10, <1>11,
       <1>12, <1>13, <1>14, <1>15, <1>16, <1>17, <1>18, <1>19, <1>20, <1>21,
       <1>22, <1>23, <1>24, <1>25, <1>26, <1>27, <1>28, <1>29, <1>30, <1>31,
       <1>32, <1>33, <1>34, <1>35, <1>36, <1>37, <1>38, <1>39, <1>40, <1>41,
       <1>42, <1>43, <1>44, <1>45, <1>46,
       <1>47
       DEF Next, Progress, resume, Mishap, Others, Callback, Continue, Serve

\* Every step keeps track of the selected mailbox and of the answer.
LEMMA DialogueStep ==
  ASSUME TypeOK, DialogueInv, [Next]_vars
  PROVE  DialogueInv'
  <1> USE ConstantsAssumption DEF TypeOK, DialogueInv, OnMessages
  <1>1. CASE StartAny
    BY <1>1 DEF StartAny, Start, read_journal
  <1>2. CASE Destroy
    BY <1>2 DEF Destroy, write_journal, Gone
  <1>3. CASE Crash
    BY <1>3 DEF Crash, Fault, Gone
  <1>4. CASE \E left \in SUBSET UIDs : CrashInWrite(left)
    BY <1>4 DEF CrashInWrite, Fault, Gone
  <1>5. CASE RemoveTorn
    BY <1>5 DEF RemoveTorn
  <1>6. CASE InputArrives
    BY <1>6 DEF InputArrives, loopRest
  <1>7. CASE ConnectionLost
    BY <1>7 DEF ConnectionLost, loopRest, Fault
  <1>8. CASE do_read_eof
    BY <1>8 DEF do_read_eof, loopRest
  <1>9. CASE do_read_error
    BY <1>9 DEF do_read_error, LeaveLoop
  <1>10. CASE do_signal
    BY <1>10 DEF do_signal, do_quit, async_finish, loopRest, Fault
  <1>11. CASE do_signal_again
    BY <1>11 DEF do_signal_again, LeaveLoop, Fault
  <1>12. CASE RunReturns
    BY <1>12 DEF RunReturns, LeaveLoop
  <1>13. CASE imap_data_exists
    BY <1>13 DEF imap_data_exists, callRest, More, Rearm, InHandler
  <1>14. CASE imap_status_code_uidvalidity
    BY <1>14 DEF imap_status_code_uidvalidity, callRest, More, Rearm, InHandler
  <1>15. CASE \E u \in UIDs : imap_data_fetch_begin(u)
    BY <1>15 DEF imap_data_fetch_begin, fetch_begin, callRest, More, Rearm, InHandler
  <1>16. CASE \E u \in UIDs, parts \in SUBSET {"uid"} :
                imap_data_fetch_begin_unsolicited(u, parts)
    BY <1>16 DEF imap_data_fetch_begin_unsolicited, fetch_begin, Here, callRest, More,
       Rearm, InHandler
  <1>17. CASE simulate_error
    BY <1>17 DEF simulate_error, LeaveLoop, Fault, InHandler
  <1>18. CASE imap_uid
    BY <1>18 DEF imap_uid, callRest, More, Rearm, InHandler
  <1>19. CASE imap_body_section_inner
    BY <1>19 DEF imap_body_section_inner, callRest, More, Rearm, InHandler
  <1>20. CASE imap_body_section_end
    BY <1>20 DEF imap_body_section_end, callRest, More, Rearm, InHandler
  <1>21. CASE imap_data_fetch_end
    BY <1>21 DEF imap_data_fetch_end, callRest, More, Rearm, InHandler
  <1>22. CASE imap_data_fetch_end_without_uid
    BY <1>22 DEF imap_data_fetch_end_without_uid, InHandler, LeaveLoop
  <1>23. CASE do_post_login
    BY <1>23 DEF do_post_login, do_task, Send, Tagged, Rearm, InHandler
  <1>24. CASE cleanup_store
    BY <1>24 DEF cleanup_store, async_store, Send, Tagged, Rearm, InHandler
  <1>25. CASE cleanup_expunge
    BY <1>25 DEF cleanup_expunge, async_uid_or_simple_expunge, Send, Tagged, Rearm,
       InHandler
  <1>26. CASE cleanup_finish
    BY <1>26 DEF cleanup_finish, do_task, Send, Tagged, Rearm, InHandler
  <1>27. CASE task_selected
    BY <1>27 DEF task_selected, async_fetch, async_logout, Send, Tagged, Rearm,
       InHandler
  <1>28. CASE task_fetched
    BY <1>28 DEF task_fetched, async_store, async_logout, Send, Tagged, Rearm, InHandler
  <1>29. CASE task_stored
    BY <1>29 DEF task_stored, async_uid_or_simple_expunge, Send, Tagged, Rearm,
       InHandler
  <1>30. CASE task_expunged
    BY <1>30 DEF task_expunged, async_logout, Send, Tagged, Rearm, InHandler
  <1>31. CASE task_listed
    BY <1>31 DEF task_listed, async_logout, Send, Tagged, Rearm, InHandler
  <1>32. CASE task_logged_out
    BY <1>32 DEF task_logged_out, do_quit, async_finish, loopRest, Tagged, Rearm, InHandler
  <1>33. CASE empty_sequence
    BY <1>33 DEF empty_sequence, NeedsSequence, Tagged, InHandler, LeaveLoop
  <1>34. CASE imap_tagged_status_failed
    BY <1>34 DEF imap_tagged_status_failed, InHandler, LeaveLoop, Fault
  <1>35. CASE ServerSelect
    BY <1>35 DEF ServerSelect, Execute, serverRest
  <1>36. CASE ServerFetch
    BY <1>36 DEF ServerFetch, Execute, serverRest, Here
  <1>37. CASE ServerStore
    BY <1>37 DEF ServerStore, Execute, serverRest, Here, Name
  <1>38. CASE ServerExpunge
    BY <1>38 DEF ServerExpunge, Execute, serverRest, Here, Name
  <1>39. CASE ServerOther
    BY <1>39 DEF ServerOther, Execute, serverRest
  <1>40. CASE \E m \in Mailboxes, u \in UIDs : Arrive(m, u)
    BY <1>40 DEF Arrive, clientVars
  <1>41. CASE \E x \in present : OtherDeletes(x)
    BY <1>41 DEF OtherDeletes, clientVars, Fault
  <1>42. CASE \E m \in Mailboxes : OtherExpunges(m)
    BY <1>42 DEF OtherExpunges, clientVars, Fault
  <1>43. CASE \E m \in Mailboxes, v \in Validities : Renumber(m, v)
    BY <1>43 DEF Renumber, clientVars, Fault
  <1>44. CASE UNCHANGED vars
    BY <1>44 DEF vars
  <1>45. CASE imap_capability
    BY <1>45 DEF imap_capability, listRest, More, Rearm, InHandler
  <1>46. CASE imap_status_code_capability_begin
    BY <1>46 DEF imap_status_code_capability_begin, listRest, More, Rearm, InHandler
  <1>47. CASE ServerLogin
    BY <1>47 DEF ServerLogin, Execute, serverRest
  <1> QED
    BY <1>1, <1>2, <1>3, <1>4, <1>5, <1>6, <1>7, <1>8, <1>9, <1>10, <1>11,
       <1>12, <1>13, <1>14, <1>15, <1>16, <1>17, <1>18, <1>19, <1>20, <1>21,
       <1>22, <1>23, <1>24, <1>25, <1>26, <1>27, <1>28, <1>29, <1>30, <1>31,
       <1>32, <1>33, <1>34, <1>35, <1>36, <1>37, <1>38, <1>39, <1>40, <1>41,
       <1>42, <1>43, <1>44, <1>45, <1>46,
       <1>47
       DEF Next, Progress, resume, Mishap, Others, Callback, Continue, Serve


\* Type correctness of the client, the server and the dialogue, for every use.
THEOREM TypeCorrect == Spec => [](TypeOK /\ DialogueInv)
  <1>1. Init => TypeOK /\ DialogueInv
    BY InitType
  <1>2. TypeOK /\ DialogueInv /\ [Next]_vars => (TypeOK /\ DialogueInv)'
    <2> SUFFICES ASSUME TypeOK, DialogueInv, [Next]_vars
                 PROVE  (TypeOK /\ DialogueInv)'
      OBVIOUS
    <2>1. FlagsOK'
      BY FlagsStep DEF TypeOK
    <2> QED BY <2>1, TypeStep, DialogueStep
  <1> QED BY <1>1, <1>2, PTL DEF Spec
-----------------------------------------------------------------------------

\* Under CautiousUse every step keeps what is known of the current message.
LEMMA FetchStep ==
  ASSUME CautiousUse, SafetyInv, [Next]_vars
  PROVE  FetchInv'
  <1> USE ConstantsAssumption DEF CautiousUse, OneMailbox, SafetyInv, TypeOK, DialogueInv, FetchInv, OnMessages,
          Name
  <1>1. CASE StartAny
    BY <1>1 DEF StartAny, Start, read_journal
  <1>2. CASE Destroy
    BY <1>2 DEF Destroy, write_journal, Gone
  <1>3. CASE Crash
    BY <1>3 DEF Crash, Fault, Gone
  <1>4. CASE \E left \in SUBSET UIDs : CrashInWrite(left)
    BY <1>4 DEF CrashInWrite, Fault, Gone
  <1>5. CASE RemoveTorn
    BY <1>5 DEF RemoveTorn
  <1>6. CASE InputArrives
    BY <1>6 DEF InputArrives, loopRest
  <1>7. CASE ConnectionLost
    BY <1>7 DEF ConnectionLost, loopRest, Fault
  <1>8. CASE do_read_eof
    BY <1>8 DEF do_read_eof, loopRest
  <1>9. CASE do_read_error
    BY <1>9 DEF do_read_error, LeaveLoop
  <1>10. CASE do_signal
    BY <1>10 DEF do_signal, do_quit, async_finish, loopRest, Fault
  <1>11. CASE do_signal_again
    BY <1>11 DEF do_signal_again, LeaveLoop, Fault
  <1>12. CASE RunReturns
    BY <1>12 DEF RunReturns, LeaveLoop
  <1>13. CASE imap_data_exists
    BY <1>13 DEF imap_data_exists, callRest, More, Rearm, InHandler
  <1>14. CASE imap_status_code_uidvalidity
    BY <1>14 DEF imap_status_code_uidvalidity, callRest, More, Rearm, InHandler
  <1>15. CASE \E u \in UIDs : imap_data_fetch_begin(u)
    BY <1>15 DEF imap_data_fetch_begin, fetch_begin, callRest, More, Rearm, InHandler
  <1>16. CASE \E u \in UIDs, parts \in SUBSET {"uid"} :
                imap_data_fetch_begin_unsolicited(u, parts)
    BY <1>16 DEF imap_data_fetch_begin_unsolicited, fetch_begin, Here, callRest, More,
       Rearm, InHandler
  <1>17. CASE simulate_error
    BY <1>17 DEF simulate_error, LeaveLoop, Fault, InHandler
  <1>18. CASE imap_uid
    BY <1>18 DEF imap_uid, callRest, More, Rearm, InHandler
  <1>19. CASE imap_body_section_inner
    BY <1>19 DEF imap_body_section_inner, callRest, More, Rearm, InHandler
  <1>20. CASE imap_body_section_end
    BY <1>20 DEF imap_body_section_end, callRest, More, Rearm, InHandler
  <1>21. CASE imap_data_fetch_end
    BY <1>21 DEF imap_data_fetch_end, callRest, More, Rearm, InHandler
  <1>22. CASE imap_data_fetch_end_without_uid
    BY <1>22 DEF imap_data_fetch_end_without_uid, InHandler, LeaveLoop
  <1>23. CASE do_post_login
    BY <1>23 DEF do_post_login, do_task, Send, Tagged, Rearm, InHandler
  <1>24. CASE cleanup_store
    BY <1>24 DEF cleanup_store, async_store, Send, Tagged, Rearm, InHandler
  <1>25. CASE cleanup_expunge
    BY <1>25 DEF cleanup_expunge, async_uid_or_simple_expunge, Send, Tagged, Rearm,
       InHandler
  <1>26. CASE cleanup_finish
    BY <1>26 DEF cleanup_finish, do_task, Send, Tagged, Rearm, InHandler
  <1>27. CASE task_selected
    BY <1>27 DEF task_selected, async_fetch, async_logout, Send, Tagged, Rearm,
       InHandler
  <1>28. CASE task_fetched
    BY <1>28 DEF task_fetched, async_store, async_logout, Send, Tagged, Rearm, InHandler
  <1>29. CASE task_stored
    BY <1>29 DEF task_stored, async_uid_or_simple_expunge, Send, Tagged, Rearm,
       InHandler
  <1>30. CASE task_expunged
    BY <1>30 DEF task_expunged, async_logout, Send, Tagged, Rearm, InHandler
  <1>31. CASE task_listed
    BY <1>31 DEF task_listed, async_logout, Send, Tagged, Rearm, InHandler
  <1>32. CASE task_logged_out
    BY <1>32 DEF task_logged_out, do_quit, async_finish, loopRest, Tagged, Rearm, InHandler
  <1>33. CASE empty_sequence
    BY <1>33 DEF empty_sequence, NeedsSequence, Tagged, InHandler, LeaveLoop
  <1>34. CASE imap_tagged_status_failed
    BY <1>34 DEF imap_tagged_status_failed, InHandler, LeaveLoop, Fault
  <1>35. CASE ServerSelect
    BY <1>35 DEF ServerSelect, Execute, serverRest
  <1>36. CASE ServerFetch
    BY <1>36 DEF ServerFetch, Execute, serverRest, Here
  <1>37. CASE ServerStore
    BY <1>37 DEF ServerStore, Execute, serverRest, Here
  <1>38. CASE ServerExpunge
    BY <1>38 DEF ServerExpunge, Execute, serverRest, Here
  <1>39. CASE ServerOther
    BY <1>39 DEF ServerOther, Execute, serverRest
  <1>40. CASE \E m \in Mailboxes, u \in UIDs : Arrive(m, u)
    BY <1>40 DEF Arrive, clientVars
  <1>41. CASE \E x \in present : OtherDeletes(x)
    BY <1>41 DEF OtherDeletes, clientVars, Fault
  <1>42. CASE \E m \in Mailboxes : OtherExpunges(m)
    BY <1>42 DEF OtherExpunges, clientVars, Fault
  <1>43. CASE \E m \in Mailboxes, v \in Validities : Renumber(m, v)
    BY <1>43 DEF Renumber, clientVars, Fault
  <1>44. CASE UNCHANGED vars
    BY <1>44 DEF vars
  <1>45. CASE imap_capability
    BY <1>45 DEF imap_capability, listRest, More, Rearm, InHandler
  <1>46. CASE imap_status_code_capability_begin
    BY <1>46 DEF imap_status_code_capability_begin, listRest, More, Rearm, InHandler
  <1>47. CASE ServerLogin
    BY <1>47 DEF ServerLogin, Execute, serverRest
  <1> QED
    BY <1>1, <1>2, <1>3, <1>4, <1>5, <1>6, <1>7, <1>8, <1>9, <1>10, <1>11,
       <1>12, <1>13, <1>14, <1>15, <1>16, <1>17, <1>18, <1>19, <1>20, <1>21,
       <1>22, <1>23, <1>24, <1>25, <1>26, <1>27, <1>28, <1>29, <1>30, <1>31,
       <1>32, <1>33, <1>34, <1>35, <1>36, <1>37, <1>38, <1>39, <1>40, <1>41,
       <1>42, <1>43, <1>44, <1>45, <1>46,
       <1>47
       DEF Next, Progress, resume, Mishap, Others, Callback, Continue, Serve

\* The journal stays trustworthy: it is written from trustworthy UIDs only.
LEMMA JournalStep ==
  ASSUME CautiousUse, SafetyInv, [Next]_vars
  PROVE  JournalTrust'
  <1> USE ConstantsAssumption DEF SafetyInv, TypeOK, TrustInv, JournalTrust, MemoryTrust, Journaled,
          Remembered, NoJournal, Torn, Journals
  <1>1. CASE StartAny
    BY <1>1 DEF StartAny, Start, read_journal
  <1>2. CASE Destroy
    BY <1>2 DEF Destroy, write_journal, Gone
  <1>3. CASE Crash
    BY <1>3 DEF Crash, Fault, Gone
  <1>4. CASE \E left \in SUBSET UIDs : CrashInWrite(left)
    BY <1>4 DEF CrashInWrite, Fault, Gone
  <1>5. CASE RemoveTorn
    BY <1>5 DEF RemoveTorn
  <1>6. CASE InputArrives
    BY <1>6 DEF InputArrives, loopRest
  <1>7. CASE ConnectionLost
    BY <1>7 DEF ConnectionLost, loopRest, Fault
  <1>8. CASE do_read_eof
    BY <1>8 DEF do_read_eof, loopRest
  <1>9. CASE do_read_error
    BY <1>9 DEF do_read_error, LeaveLoop
  <1>10. CASE do_signal
    BY <1>10 DEF do_signal, do_quit, async_finish, loopRest, Fault
  <1>11. CASE do_signal_again
    BY <1>11 DEF do_signal_again, LeaveLoop, Fault
  <1>12. CASE RunReturns
    BY <1>12 DEF RunReturns, LeaveLoop
  <1>13. CASE imap_data_exists
    BY <1>13 DEF imap_data_exists, callRest, More, Rearm, InHandler
  <1>14. CASE imap_status_code_uidvalidity
    BY <1>14 DEF imap_status_code_uidvalidity, callRest, More, Rearm, InHandler
  <1>15. CASE \E u \in UIDs : imap_data_fetch_begin(u)
    BY <1>15 DEF imap_data_fetch_begin, fetch_begin, callRest, More, Rearm, InHandler
  <1>16. CASE \E u \in UIDs, parts \in SUBSET {"uid"} :
                imap_data_fetch_begin_unsolicited(u, parts)
    BY <1>16 DEF imap_data_fetch_begin_unsolicited, fetch_begin, Here, callRest, More,
       Rearm, InHandler
  <1>17. CASE simulate_error
    BY <1>17 DEF simulate_error, LeaveLoop, Fault, InHandler
  <1>18. CASE imap_uid
    BY <1>18 DEF imap_uid, callRest, More, Rearm, InHandler
  <1>19. CASE imap_body_section_inner
    BY <1>19 DEF imap_body_section_inner, callRest, More, Rearm, InHandler
  <1>20. CASE imap_body_section_end
    BY <1>20 DEF imap_body_section_end, callRest, More, Rearm, InHandler
  <1>21. CASE imap_data_fetch_end
    BY <1>21 DEF imap_data_fetch_end, callRest, More, Rearm, InHandler
  <1>22. CASE imap_data_fetch_end_without_uid
    BY <1>22 DEF imap_data_fetch_end_without_uid, InHandler, LeaveLoop
  <1>23. CASE do_post_login
    BY <1>23 DEF do_post_login, do_task, Send, Tagged, Rearm, InHandler
  <1>24. CASE cleanup_store
    BY <1>24 DEF cleanup_store, async_store, Send, Tagged, Rearm, InHandler
  <1>25. CASE cleanup_expunge
    BY <1>25 DEF cleanup_expunge, async_uid_or_simple_expunge, Send, Tagged, Rearm,
       InHandler
  <1>26. CASE cleanup_finish
    BY <1>26 DEF cleanup_finish, do_task, Send, Tagged, Rearm, InHandler
  <1>27. CASE task_selected
    BY <1>27 DEF task_selected, async_fetch, async_logout, Send, Tagged, Rearm,
       InHandler
  <1>28. CASE task_fetched
    BY <1>28 DEF task_fetched, async_store, async_logout, Send, Tagged, Rearm, InHandler
  <1>29. CASE task_stored
    BY <1>29 DEF task_stored, async_uid_or_simple_expunge, Send, Tagged, Rearm,
       InHandler
  <1>30. CASE task_expunged
    BY <1>30 DEF task_expunged, async_logout, Send, Tagged, Rearm, InHandler
  <1>31. CASE task_listed
    BY <1>31 DEF task_listed, async_logout, Send, Tagged, Rearm, InHandler
  <1>32. CASE task_logged_out
    BY <1>32 DEF task_logged_out, do_quit, async_finish, loopRest, Tagged, Rearm, InHandler
  <1>33. CASE empty_sequence
    BY <1>33 DEF empty_sequence, NeedsSequence, Tagged, InHandler, LeaveLoop
  <1>34. CASE imap_tagged_status_failed
    BY <1>34 DEF imap_tagged_status_failed, InHandler, LeaveLoop, Fault
  <1>35. CASE ServerSelect
    BY <1>35 DEF ServerSelect, Execute, serverRest
  <1>36. CASE ServerFetch
    BY <1>36 DEF ServerFetch, Execute, serverRest, Here
  <1>37. CASE ServerStore
    BY <1>37 DEF ServerStore, Execute, serverRest, Here, Name
  <1>38. CASE ServerExpunge
    BY <1>38 DEF ServerExpunge, Execute, serverRest, Here, Name
  <1>39. CASE ServerOther
    BY <1>39 DEF ServerOther, Execute, serverRest
  <1>40. CASE \E m \in Mailboxes, u \in UIDs : Arrive(m, u)
    BY <1>40 DEF Arrive, clientVars
  <1>41. CASE \E x \in present : OtherDeletes(x)
    BY <1>41 DEF OtherDeletes, clientVars, Fault
  <1>42. CASE \E m \in Mailboxes : OtherExpunges(m)
    BY <1>42 DEF OtherExpunges, clientVars, Fault
  <1>43. CASE \E m \in Mailboxes, v \in Validities : Renumber(m, v)
    BY <1>43 DEF Renumber, clientVars, Fault
  <1>44. CASE UNCHANGED vars
    BY <1>44 DEF vars
  <1>45. CASE imap_capability
    BY <1>45 DEF imap_capability, listRest, More, Rearm, InHandler
  <1>46. CASE imap_status_code_capability_begin
    BY <1>46 DEF imap_status_code_capability_begin, listRest, More, Rearm, InHandler
  <1>47. CASE ServerLogin
    BY <1>47 DEF ServerLogin, Execute, serverRest
  <1> QED
    BY <1>1, <1>2, <1>3, <1>4, <1>5, <1>6, <1>7, <1>8, <1>9, <1>10, <1>11,
       <1>12, <1>13, <1>14, <1>15, <1>16, <1>17, <1>18, <1>19, <1>20, <1>21,
       <1>22, <1>23, <1>24, <1>25, <1>26, <1>27, <1>28, <1>29, <1>30, <1>31,
       <1>32, <1>33, <1>34, <1>35, <1>36, <1>37, <1>38, <1>39, <1>40, <1>41,
       <1>42, <1>43, <1>44, <1>45, <1>46,
       <1>47
       DEF Next, Progress, resume, Mishap, Others, Callback, Continue, Serve

\* So do the UIDs in memory: they come from the journal or from a FETCH whose
\* message has been delivered.
LEMMA MemoryStep ==
  ASSUME CautiousUse, SafetyInv, [Next]_vars
  PROVE  MemoryTrust'
  <1> USE ConstantsAssumption DEF CautiousUse, OneMailbox, SafetyInv, TypeOK, DialogueInv, TrustInv, MemoryTrust,
          FetchInv, OnMessages, CleaningUp, CleanupCommands, Remembered
  <1>1. CASE StartAny
    <2> PICK o \in Options : Start(o)
      BY <1>1 DEF StartAny
    <2>1. CASE journal = NoJournal
      BY <2>1 DEF Start, read_journal, NoJournal
    <2>2. CASE journal # NoJournal
      <3>1. journal \in Journals
        BY <2>2 DEF Start
      <3>2. /\ mailbox' = journal.mailbox /\ uids' = journal.uids
            /\ uidvalidity' = journal.uidvalidity
            /\ opt' = o /\ cmd' = "login"
        BY <2>2 DEF Start, read_journal
      <3>3. Journaled = Remembered'
        BY <2>2, <3>2 DEF Start, Journaled
      <3>4. o.del => o.mailbox = journal.mailbox
        BY <3>1 DEF JournalTrust
      <3>5. Remembered' \subseteq delivered'
        BY <3>3 DEF Start, JournalTrust
      <3> QED BY <3>2, <3>4, <3>5
    <2> QED BY <2>1, <2>2
  <1>2. CASE Destroy
    BY <1>2 DEF Destroy, write_journal, Gone
  <1>3. CASE Crash
    BY <1>3 DEF Crash, Fault, Gone
  <1>4. CASE \E left \in SUBSET UIDs : CrashInWrite(left)
    BY <1>4 DEF CrashInWrite, Fault, Gone
  <1>5. CASE RemoveTorn
    BY <1>5 DEF RemoveTorn
  <1>6. CASE InputArrives
    BY <1>6 DEF InputArrives, loopRest
  <1>7. CASE ConnectionLost
    BY <1>7 DEF ConnectionLost, loopRest, Fault
  <1>8. CASE do_read_eof
    BY <1>8 DEF do_read_eof, loopRest
  <1>9. CASE do_read_error
    BY <1>9 DEF do_read_error, LeaveLoop
  <1>10. CASE do_signal
    BY <1>10 DEF do_signal, do_quit, async_finish, loopRest, Fault
  <1>11. CASE do_signal_again
    BY <1>11 DEF do_signal_again, LeaveLoop, Fault
  <1>12. CASE RunReturns
    BY <1>12 DEF RunReturns, LeaveLoop
  <1>13. CASE imap_data_exists
    BY <1>13 DEF imap_data_exists, callRest, More, Rearm, InHandler
  <1>14. CASE imap_status_code_uidvalidity
    <2>1. CASE uidvalidity # validity[selected]
      BY <1>14, <2>1 DEF imap_status_code_uidvalidity, callRest
    <2>2. CASE uidvalidity = validity[selected]
      BY <1>14, <2>2 DEF imap_status_code_uidvalidity, callRest
    <2> QED BY <2>1, <2>2
  <1>15. CASE \E u \in UIDs : imap_data_fetch_begin(u)
    BY <1>15 DEF imap_data_fetch_begin, fetch_begin, callRest, More, Rearm, InHandler
  <1>16. CASE \E u \in UIDs, parts \in SUBSET {"uid"} :
                imap_data_fetch_begin_unsolicited(u, parts)
    BY <1>16 DEF imap_data_fetch_begin_unsolicited, fetch_begin, Here, callRest, More,
       Rearm, InHandler
  <1>17. CASE simulate_error
    BY <1>17 DEF simulate_error, LeaveLoop, Fault, InHandler
  <1>18. CASE imap_uid
    BY <1>18 DEF imap_uid, callRest, More, Rearm, InHandler
  <1>19. CASE imap_body_section_inner
    BY <1>19 DEF imap_body_section_inner, callRest, More, Rearm, InHandler
  <1>20. CASE imap_body_section_end
    BY <1>20 DEF imap_body_section_end, callRest, More, Rearm, InHandler
  <1>21. CASE imap_data_fetch_end
    <2>1. /\ cmd = "fetch" /\ selected = mailbox
          /\ uidvalidity = validity[mailbox] /\ state = "FETCHING"
      BY <1>21 DEF imap_data_fetch_end, InHandler
    <2>2. opt.del => opt.task = "DOWNLOAD"
      BY <1>21, <2>1 DEF imap_data_fetch_end, InHandler, Tasks
    <2>3. opt.del => <<mailbox, uidvalidity, lastUid>> \in delivered
      BY <1>21, <2>1, <2>2 DEF imap_data_fetch_end, Name
    <2>4. opt.del => Remembered' \subseteq delivered'
      BY <1>21, <2>3 DEF imap_data_fetch_end, InHandler, callRest
    <2> QED BY <1>21, <2>1, <2>4 DEF imap_data_fetch_end, callRest
  <1>22. CASE imap_data_fetch_end_without_uid
    BY <1>22 DEF imap_data_fetch_end_without_uid, InHandler, LeaveLoop
  <1>23. CASE do_post_login
    BY <1>23 DEF do_post_login, do_task, Send, Tagged, Rearm, InHandler
  <1>24. CASE cleanup_store
    BY <1>24 DEF cleanup_store, async_store, Send, Tagged, Rearm, InHandler
  <1>25. CASE cleanup_expunge
    BY <1>25 DEF cleanup_expunge, async_uid_or_simple_expunge, Send, Tagged, Rearm,
       InHandler
  <1>26. CASE cleanup_finish
    BY <1>26 DEF cleanup_finish, do_task, Send, Tagged, Rearm, InHandler
  <1>27. CASE task_selected
    <2>1. CASE async_fetch
      BY <1>27, <2>1 DEF task_selected, async_fetch, Send, Tagged, InHandler
    <2>2. CASE async_logout
      BY <1>27, <2>2 DEF task_selected, async_logout, Send, Tagged, InHandler
    <2>3. CASE Send("list", {}, state) /\ UNCHANGED <<uids, mailbox>>
      BY <1>27, <2>3 DEF task_selected, Send, Tagged, InHandler
    <2> QED BY <1>27, <2>1, <2>2, <2>3 DEF task_selected
  <1>28. CASE task_fetched
    <2>1. CASE async_logout
      BY <1>28, <2>1 DEF task_fetched, async_logout, Send, Tagged, InHandler
    <2>2. CASE opt.del /\ async_store("store")
      BY <1>28, <2>2 DEF task_fetched, async_store, Send, Tagged, InHandler
    <2> QED BY <1>28, <2>1, <2>2 DEF task_fetched
  <1>29. CASE task_stored
    BY <1>29 DEF task_stored, async_uid_or_simple_expunge, Send, Tagged, Rearm,
       InHandler
  <1>30. CASE task_expunged
    BY <1>30 DEF task_expunged, async_logout, Send, Tagged, Rearm, InHandler
  <1>31. CASE task_listed
    BY <1>31 DEF task_listed, async_logout, Send, Tagged, Rearm, InHandler
  <1>32. CASE task_logged_out
    BY <1>32 DEF task_logged_out, do_quit, async_finish, loopRest, Tagged, Rearm, InHandler
  <1>33. CASE empty_sequence
    BY <1>33 DEF empty_sequence, NeedsSequence, Tagged, InHandler, LeaveLoop
  <1>34. CASE imap_tagged_status_failed
    BY <1>34 DEF imap_tagged_status_failed, InHandler, LeaveLoop, Fault
  <1>35. CASE ServerSelect
    BY <1>35 DEF ServerSelect, Execute, serverRest
  <1>36. CASE ServerFetch
    BY <1>36 DEF ServerFetch, Execute, serverRest, Here
  <1>37. CASE ServerStore
    BY <1>37 DEF ServerStore, Execute, serverRest, Here, Name
  <1>38. CASE ServerExpunge
    BY <1>38 DEF ServerExpunge, Execute, serverRest, Here, Name
  <1>39. CASE ServerOther
    BY <1>39 DEF ServerOther, Execute, serverRest
  <1>40. CASE \E m \in Mailboxes, u \in UIDs : Arrive(m, u)
    BY <1>40 DEF Arrive, clientVars
  <1>41. CASE \E x \in present : OtherDeletes(x)
    BY <1>41 DEF OtherDeletes, clientVars, Fault
  <1>42. CASE \E m \in Mailboxes : OtherExpunges(m)
    BY <1>42 DEF OtherExpunges, clientVars, Fault
  <1>43. CASE \E m \in Mailboxes, v \in Validities : Renumber(m, v)
    BY <1>43 DEF Renumber, clientVars, Fault
  <1>44. CASE UNCHANGED vars
    BY <1>44 DEF vars
  <1>45. CASE imap_capability
    BY <1>45 DEF imap_capability, listRest, More, Rearm, InHandler
  <1>46. CASE imap_status_code_capability_begin
    BY <1>46 DEF imap_status_code_capability_begin, listRest, More, Rearm, InHandler
  <1>47. CASE ServerLogin
    BY <1>47 DEF ServerLogin, Execute, serverRest
  <1> QED
    BY <1>1, <1>2, <1>3, <1>4, <1>5, <1>6, <1>7, <1>8, <1>9, <1>10, <1>11,
       <1>12, <1>13, <1>14, <1>15, <1>16, <1>17, <1>18, <1>19, <1>20, <1>21,
       <1>22, <1>23, <1>24, <1>25, <1>26, <1>27, <1>28, <1>29, <1>30, <1>31,
       <1>32, <1>33, <1>34, <1>35, <1>36, <1>37, <1>38, <1>39, <1>40, <1>41,
       <1>42, <1>43, <1>44, <1>45, <1>46,
       <1>47
       DEF Next, Progress, resume, Mishap, Others, Callback, Continue, Serve

\* Seven of the actions change the mail on the server or in the maildir; all
\* others leave it alone.
MailUnchanged == UNCHANGED <<arrived, present, deleted, abandoned, delivered, ours>>

LEMMA MailSteps ==
  ASSUME [Next]_vars
  PROVE  \/ ServerStore \/ ServerExpunge \/ imap_body_section_end
         \/ \E m \in Mailboxes, u \in UIDs : Arrive(m, u)
         \/ \E x \in present : OtherDeletes(x)
         \/ \E m \in Mailboxes : OtherExpunges(m)
         \/ \E m \in Mailboxes, v \in Validities : Renumber(m, v)
         \/ MailUnchanged
  <1> USE DEF MailUnchanged
  <1>1. CASE StartAny
    BY <1>1 DEF StartAny, Start, read_journal
  <1>2. CASE Destroy
    BY <1>2 DEF Destroy, Gone
  <1>3. CASE Crash
    BY <1>3 DEF Crash, Gone
  <1>4. CASE \E left \in SUBSET UIDs : CrashInWrite(left)
    BY <1>4 DEF CrashInWrite, Gone
  <1>5. CASE RemoveTorn
    BY <1>5 DEF RemoveTorn
  <1>6. CASE InputArrives
    BY <1>6 DEF InputArrives, loopRest
  <1>7. CASE ConnectionLost
    BY <1>7 DEF ConnectionLost, loopRest
  <1>8. CASE do_read_eof
    BY <1>8 DEF do_read_eof, loopRest
  <1>9. CASE do_read_error
    BY <1>9 DEF do_read_error, LeaveLoop
  <1>10. CASE do_signal
    BY <1>10 DEF do_signal, do_quit, async_finish, loopRest
  <1>11. CASE do_signal_again
    BY <1>11 DEF do_signal_again, LeaveLoop
  <1>12. CASE RunReturns
    BY <1>12 DEF RunReturns, LeaveLoop
  <1>13. CASE imap_data_exists
    BY <1>13 DEF imap_data_exists, callRest
  <1>14. CASE imap_status_code_uidvalidity
    BY <1>14 DEF imap_status_code_uidvalidity, callRest
  <1>15. CASE \E u \in UIDs : imap_data_fetch_begin(u)
    BY <1>15 DEF imap_data_fetch_begin, fetch_begin, callRest
  <1>16. CASE \E u \in UIDs, parts \in SUBSET {"uid"} :
                imap_data_fetch_begin_unsolicited(u, parts)
    BY <1>16 DEF imap_data_fetch_begin_unsolicited, fetch_begin, callRest
  <1>17. CASE simulate_error
    BY <1>17 DEF simulate_error, LeaveLoop
  <1>18. CASE imap_uid
    BY <1>18 DEF imap_uid, callRest
  <1>19. CASE imap_body_section_inner
    BY <1>19 DEF imap_body_section_inner, callRest
  <1>20. CASE imap_data_fetch_end
    BY <1>20 DEF imap_data_fetch_end, callRest
  <1>21. CASE imap_data_fetch_end_without_uid
    BY <1>21 DEF imap_data_fetch_end_without_uid, LeaveLoop
  <1>22. CASE do_post_login
    BY <1>22 DEF do_post_login, do_task, Send
  <1>23. CASE cleanup_store
    BY <1>23 DEF cleanup_store, async_store, Send
  <1>24. CASE cleanup_expunge
    BY <1>24 DEF cleanup_expunge, async_uid_or_simple_expunge, Send
  <1>25. CASE cleanup_finish
    BY <1>25 DEF cleanup_finish, do_task, Send
  <1>26. CASE task_selected
    BY <1>26 DEF task_selected, async_fetch, async_logout, Send
  <1>27. CASE task_fetched
    BY <1>27 DEF task_fetched, async_store, async_logout, Send
  <1>28. CASE task_stored
    BY <1>28 DEF task_stored, async_uid_or_simple_expunge, Send
  <1>29. CASE task_expunged
    BY <1>29 DEF task_expunged, async_logout, Send
  <1>30. CASE task_listed
    BY <1>30 DEF task_listed, async_logout, Send
  <1>31. CASE task_logged_out
    BY <1>31 DEF task_logged_out, do_quit, async_finish, loopRest
  <1>32. CASE empty_sequence
    BY <1>32 DEF empty_sequence, LeaveLoop
  <1>33. CASE imap_tagged_status_failed
    BY <1>33 DEF imap_tagged_status_failed, LeaveLoop
  <1>34. CASE ServerSelect
    BY <1>34 DEF ServerSelect, Execute, serverRest
  <1>35. CASE ServerFetch
    BY <1>35 DEF ServerFetch, Execute, serverRest
  <1>36. CASE ServerOther
    BY <1>36 DEF ServerOther, Execute, serverRest
  <1>37. CASE UNCHANGED vars
    BY <1>37 DEF vars
  <1>38. CASE imap_capability
    BY <1>38 DEF imap_capability, listRest
  <1>39. CASE imap_status_code_capability_begin
    BY <1>39 DEF imap_status_code_capability_begin, listRest
  <1>40. CASE ServerLogin
    BY <1>40 DEF ServerLogin, Execute, serverRest
  <1> QED
    BY <1>1, <1>2, <1>3, <1>4, <1>5, <1>6, <1>7, <1>8, <1>9, <1>10, <1>11,
       <1>12, <1>13, <1>14, <1>15, <1>16, <1>17, <1>18, <1>19, <1>20, <1>21,
       <1>22, <1>23, <1>24, <1>25, <1>26, <1>27, <1>28, <1>29, <1>30, <1>31,
       <1>32, <1>33, <1>34, <1>35, <1>36, <1>37, <1>38, <1>39,
       <1>40
       DEF Next, Progress, resume, Mishap, Others, Callback, Continue, Serve

\* Only delivered or abandoned messages carry the \Deleted flag.
LEMMA FlagStep ==
  ASSUME SafetyInv, [Next]_vars
  PROVE  FlagTrust'
  <1> USE DEF SafetyInv, TypeOK, DialogueInv, TrustInv, FlagTrust
  <1>1. CASE ServerStore
    <2>1. cmd \in {"c_store", "store"} /\ proc # "down" /\ (opt.del \/ CleaningUp)
      BY <1>1 DEF ServerStore, Execute, MemoryTrust, CleaningUp, CleanupCommands
    <2>2. arg \subseteq uids /\ Remembered \subseteq delivered
      BY <2>1 DEF MemoryTrust
    <2>3. selected = mailbox /\ validity[selected] = uidvalidity
      BY <2>1 DEF OnMessages
    <2>4. {Name(u) : u \in arg \cap Here} \subseteq delivered
      BY <2>2, <2>3 DEF Name, Remembered
    <2> QED BY <1>1, <2>4 DEF ServerStore, Execute, serverRest
  <1>2. CASE ServerExpunge
    BY <1>2 DEF ServerExpunge, Execute, serverRest
  <1>3. CASE imap_body_section_end
    BY <1>3 DEF imap_body_section_end, callRest
  <1>4. CASE \E m \in Mailboxes, u \in UIDs : Arrive(m, u)
    BY <1>4 DEF Arrive, clientVars
  <1>5. CASE \E x \in present : OtherDeletes(x)
    BY <1>5 DEF OtherDeletes, clientVars
  <1>6. CASE \E m \in Mailboxes : OtherExpunges(m)
    BY <1>6 DEF OtherExpunges, clientVars
  <1>7. CASE \E m \in Mailboxes, v \in Validities : Renumber(m, v)
    BY <1>7 DEF Renumber, clientVars
  <1>8. CASE MailUnchanged
    BY <1>8 DEF MailUnchanged
  <1> QED
    BY <1>1, <1>2, <1>3, <1>4, <1>5, <1>6, <1>7, <1>8, MailSteps

\* So what an EXPUNGE removes is delivered or abandoned.
LEMMA LossStep ==
  ASSUME SafetyInv, [Next]_vars
  PROVE  NoLoss'
  <1> USE DEF SafetyInv, TypeOK, TrustInv, FlagTrust, NoLoss
  <1>1. CASE ServerStore
    BY <1>1 DEF ServerStore, Execute, serverRest
  <1>2. CASE ServerExpunge
    BY <1>2 DEF ServerExpunge, Execute, serverRest
  <1>3. CASE imap_body_section_end
    BY <1>3 DEF imap_body_section_end, callRest
  <1>4. CASE \E m \in Mailboxes, u \in UIDs : Arrive(m, u)
    BY <1>4 DEF Arrive, clientVars
  <1>5. CASE \E x \in present : OtherDeletes(x)
    BY <1>5 DEF OtherDeletes, clientVars
  <1>6. CASE \E m \in Mailboxes : OtherExpunges(m)
    BY <1>6 DEF OtherExpunges, clientVars
  <1>7. CASE \E m \in Mailboxes, v \in Validities : Renumber(m, v)
    BY <1>7 DEF Renumber, clientVars
  <1>8. CASE MailUnchanged
    BY <1>8 DEF MailUnchanged
  <1> QED
    BY <1>1, <1>2, <1>3, <1>4, <1>5, <1>6, <1>7, <1>8, MailSteps


\* SafetyInv is an invariant of every cautious use.
THEOREM Safety == CautiousUse => (Spec => []SafetyInv)
  <1> SUFFICES ASSUME CautiousUse PROVE Spec => []SafetyInv
    OBVIOUS
  <1>1. Init => SafetyInv
    <2> SUFFICES ASSUME Init PROVE SafetyInv
      OBVIOUS
    <2>1. TypeOK /\ DialogueInv
      BY InitType
    <2>2. NoJournal \notin Journals
      BY ConstantsAssumption DEF NoJournal, Journals
    <2>3. TrustInv
      BY <2>2 DEF Init, TrustInv, JournalTrust, MemoryTrust, FlagTrust, Journaled
    <2>4. FetchInv /\ NoLoss
      BY DEF Init, FetchInv, NoLoss
    <2> QED BY <2>1, <2>3, <2>4 DEF SafetyInv
  <1>2. SafetyInv /\ [Next]_vars => SafetyInv'
    <2> SUFFICES ASSUME SafetyInv, [Next]_vars PROVE SafetyInv'
      OBVIOUS
    <2>1. TypeOK' /\ DialogueInv'
      BY FlagsStep, TypeStep, DialogueStep DEF SafetyInv, TypeOK
    <2>2. TrustInv' /\ FetchInv' /\ NoLoss'
      BY JournalStep, MemoryStep, FlagStep, FetchStep, LossStep DEF TrustInv
    <2> QED BY <2>1, <2>2 DEF SafetyInv
  <1> QED BY <1>1, <1>2, PTL DEF Spec

\* No mail is lost in cautious use, for any number of mailboxes, messages,
\* runs and interruptions.
THEOREM NoLossInCautiousUse == CautiousUse => (Spec => []NoLoss)
  <1>1. SafetyInv => NoLoss
    BY DEF SafetyInv
  <1> QED BY <1>1, Safety, PTL

\* The journal names only messages that have been delivered.
THEOREM JournalIsTrustworthy == CautiousUse => (Spec => []JournalNamesDelivered)
  <1>1. SafetyInv => JournalNamesDelivered
    BY DEF SafetyInv, TrustInv, JournalTrust, JournalNamesDelivered
  <1> QED BY <1>1, Safety, PTL
-----------------------------------------------------------------------------

\* Every step of the client, the server and the other sessions is a step of
\* Transfer, or leaves its variables alone.
LEMMA TransferStep ==
  ASSUME SafetyInv, SafetyInv', [Next]_vars
  PROVE  [Abstract!Next]_(Abstract!tvars)
  <1> USE DEF SafetyInv, TypeOK
  <1>1. CASE ServerStore
    BY <1>1 DEF ServerStore, Execute, serverRest, Abstract!tvars
  <1>2. CASE ServerExpunge
    <2>1. Abstract!Purge
      BY <1>2 DEF ServerExpunge, Execute, serverRest, TrustInv, FlagTrust, Abstract!Purge
    <2> QED BY <2>1 DEF Abstract!Next
  <1>3. CASE imap_body_section_end
    <2>1. Abstract!Save \/ UNCHANGED Abstract!tvars
      BY <1>3 DEF imap_body_section_end, callRest, Abstract!Save, Abstract!tvars
    <2> QED BY <2>1 DEF Abstract!Next
  <1>4. CASE \E m \in Mailboxes, u \in UIDs : Arrive(m, u)
    <2>1. Abstract!Arrive
      BY <1>4 DEF Arrive, clientVars, Abstract!Arrive
    <2> QED BY <2>1 DEF Abstract!Next
  <1>5. CASE \E x \in present : OtherDeletes(x)
    <2>1. Abstract!Abandon
      BY <1>5 DEF OtherDeletes, clientVars, Abstract!Abandon
    <2> QED BY <2>1 DEF Abstract!Next
  <1>6. CASE \E m \in Mailboxes : OtherExpunges(m)
    <2>1. Abstract!Abandon
      BY <1>6 DEF OtherExpunges, clientVars, TrustInv, FlagTrust, Abstract!Abandon
    <2> QED BY <2>1 DEF Abstract!Next
  <1>7. CASE \E m \in Mailboxes, v \in Validities : Renumber(m, v)
    <2> PICK m \in Mailboxes, v \in Validities : Renumber(m, v)
      BY <1>7
    <2> DEFINE old == {x \in present : x[1] = m}
               new == {<<m, v, x[3]>> : x \in old}
    <2>1. /\ new \cap arrived = {}
          /\ arrived' = arrived \cup new
          /\ present' = (present \ old) \cup new
          /\ abandoned' = abandoned \cup old
          /\ UNCHANGED delivered
      BY DEF Renumber, clientVars
    <2>2. old \subseteq present
      OBVIOUS
    <2> HIDE DEF old, new
    <2>3. Abstract!Renumber
      BY <2>1, <2>2 DEF Abstract!Renumber
    <2> QED BY <2>3 DEF Abstract!Next
  <1>8. CASE MailUnchanged
    BY <1>8 DEF MailUnchanged, Abstract!tvars
  <1> QED
    BY <1>1, <1>2, <1>3, <1>4, <1>5, <1>6, <1>7, <1>8, MailSteps


\* In cautious use the client implements the abstract transfer of messages:
\* whatever it makes the server remove has been stored before.
THEOREM ImplementsTransfer == CautiousUse => (Spec => Implements)
  <1>1. Init => Abstract!Init
    BY NameIsMessage DEF Init, Abstract!Init
  <1>2. SafetyInv /\ SafetyInv' /\ [Next]_vars => [Abstract!Next]_(Abstract!tvars)
    BY TransferStep
  <1> QED BY <1>1, <1>2, Safety, PTL DEF Spec, Implements, Abstract!Spec
-----------------------------------------------------------------------------

\* Every step keeps names unique: a message that arrives has a name that was
\* never used, also after a renumbering.
LEMMA NamesStep ==
  ASSUME TypeOK, DialogueInv, NamesInv, [Next]_vars
  PROVE  NamesInv'
  <1> USE ConstantsAssumption DEF TypeOK, DialogueInv, NamesInv, OnMessages, Name, Messages
  <1>1. CASE StartAny
    BY <1>1 DEF StartAny, Start, read_journal
  <1>2. CASE Destroy
    BY <1>2 DEF Destroy, write_journal, Gone
  <1>3. CASE Crash
    BY <1>3 DEF Crash, Fault, Gone
  <1>4. CASE \E left \in SUBSET UIDs : CrashInWrite(left)
    BY <1>4 DEF CrashInWrite, Fault, Gone
  <1>5. CASE RemoveTorn
    BY <1>5 DEF RemoveTorn
  <1>6. CASE InputArrives
    BY <1>6 DEF InputArrives, loopRest
  <1>7. CASE ConnectionLost
    BY <1>7 DEF ConnectionLost, loopRest, Fault
  <1>8. CASE do_read_eof
    BY <1>8 DEF do_read_eof, loopRest
  <1>9. CASE do_read_error
    BY <1>9 DEF do_read_error, LeaveLoop
  <1>10. CASE do_signal
    BY <1>10 DEF do_signal, do_quit, async_finish, loopRest, Fault
  <1>11. CASE do_signal_again
    BY <1>11 DEF do_signal_again, LeaveLoop, Fault
  <1>12. CASE RunReturns
    BY <1>12 DEF RunReturns, LeaveLoop
  <1>13. CASE imap_data_exists
    BY <1>13 DEF imap_data_exists, callRest, More, Rearm, InHandler
  <1>14. CASE imap_status_code_uidvalidity
    BY <1>14 DEF imap_status_code_uidvalidity, callRest, More, Rearm, InHandler
  <1>15. CASE \E u \in UIDs : imap_data_fetch_begin(u)
    BY <1>15 DEF imap_data_fetch_begin, fetch_begin, callRest, More, Rearm, InHandler, Here
  <1>16. CASE \E u \in UIDs, parts \in SUBSET {"uid"} :
                imap_data_fetch_begin_unsolicited(u, parts)
    BY <1>16 DEF imap_data_fetch_begin_unsolicited, fetch_begin, Here, callRest, More, Rearm,
       InHandler
  <1>17. CASE simulate_error
    BY <1>17 DEF simulate_error, LeaveLoop, Fault, InHandler
  <1>18. CASE imap_uid
    BY <1>18 DEF imap_uid, callRest, More, Rearm, InHandler
  <1>19. CASE imap_body_section_inner
    BY <1>19 DEF imap_body_section_inner, callRest, More, Rearm, InHandler
  <1>20. CASE imap_body_section_end
    BY <1>20 DEF imap_body_section_end, callRest, More, Rearm, InHandler
  <1>21. CASE imap_data_fetch_end
    BY <1>21 DEF imap_data_fetch_end, callRest, More, Rearm, InHandler
  <1>22. CASE imap_data_fetch_end_without_uid
    BY <1>22 DEF imap_data_fetch_end_without_uid, InHandler, LeaveLoop
  <1>23. CASE do_post_login
    BY <1>23 DEF do_post_login, do_task, Send, Tagged, Rearm, InHandler
  <1>24. CASE cleanup_store
    BY <1>24 DEF cleanup_store, async_store, Send, Tagged, Rearm, InHandler
  <1>25. CASE cleanup_expunge
    BY <1>25 DEF cleanup_expunge, async_uid_or_simple_expunge, Send, Tagged, Rearm, InHandler
  <1>26. CASE cleanup_finish
    BY <1>26 DEF cleanup_finish, do_task, Send, Tagged, Rearm, InHandler
  <1>27. CASE task_selected
    BY <1>27 DEF task_selected, async_fetch, async_logout, Send, Tagged, Rearm, InHandler
  <1>28. CASE task_fetched
    BY <1>28 DEF task_fetched, async_store, async_logout, Send, Tagged, Rearm, InHandler
  <1>29. CASE task_stored
    BY <1>29 DEF task_stored, async_uid_or_simple_expunge, Send, Tagged, Rearm, InHandler
  <1>30. CASE task_expunged
    BY <1>30 DEF task_expunged, async_logout, Send, Tagged, Rearm, InHandler
  <1>31. CASE task_listed
    BY <1>31 DEF task_listed, async_logout, Send, Tagged, Rearm, InHandler
  <1>32. CASE task_logged_out
    BY <1>32 DEF task_logged_out, do_quit, async_finish, loopRest, Tagged, Rearm, InHandler
  <1>33. CASE empty_sequence
    BY <1>33 DEF empty_sequence, NeedsSequence, Tagged, InHandler, LeaveLoop
  <1>34. CASE imap_tagged_status_failed
    BY <1>34 DEF imap_tagged_status_failed, InHandler, LeaveLoop, Fault
  <1>35. CASE ServerSelect
    BY <1>35 DEF ServerSelect, Execute, serverRest
  <1>36. CASE ServerFetch
    BY <1>36 DEF ServerFetch, Execute, serverRest, Here
  <1>37. CASE ServerStore
    BY <1>37 DEF ServerStore, Execute, serverRest, Here, Name
  <1>38. CASE ServerExpunge
    BY <1>38 DEF ServerExpunge, Execute, serverRest, Here, Name
  <1>39. CASE ServerOther
    BY <1>39 DEF ServerOther, Execute, serverRest
  <1>40. CASE \E m \in Mailboxes, u \in UIDs : Arrive(m, u)
    BY <1>40 DEF Arrive, clientVars
  <1>41. CASE \E x \in present : OtherDeletes(x)
    BY <1>41 DEF OtherDeletes, clientVars, Fault
  <1>42. CASE \E m \in Mailboxes : OtherExpunges(m)
    BY <1>42 DEF OtherExpunges, clientVars, Fault
  <1>43. CASE \E m \in Mailboxes, v \in Validities : Renumber(m, v)
    BY <1>43 DEF Renumber, clientVars, Fault
  <1>44. CASE UNCHANGED vars
    BY <1>44 DEF vars
  <1>45. CASE imap_capability
    BY <1>45 DEF imap_capability, listRest, More, Rearm, InHandler
  <1>46. CASE imap_status_code_capability_begin
    BY <1>46 DEF imap_status_code_capability_begin, listRest, More, Rearm, InHandler
  <1>47. CASE ServerLogin
    BY <1>47 DEF ServerLogin, Execute, serverRest
  <1> QED
    BY <1>1, <1>2, <1>3, <1>4, <1>5, <1>6, <1>7, <1>8, <1>9, <1>10, <1>11, <1>12, <1>13, <1>14,
       <1>15, <1>16, <1>17, <1>18, <1>19, <1>20, <1>21, <1>22, <1>23, <1>24, <1>25, <1>26,
       <1>27, <1>28, <1>29, <1>30, <1>31, <1>32, <1>33, <1>34, <1>35, <1>36, <1>37, <1>38,
       <1>39, <1>40, <1>41, <1>42, <1>43, <1>44, <1>45, <1>46,
       <1>47
       DEF Next, Progress, resume, Mishap, Others, Callback, Continue, Serve

\* Names are unique, for every use.
LEMMA NamesAlways == Spec => []NamesInv
  <1>1. Init => NamesInv
    <2> SUFFICES ASSUME Init PROVE NamesInv
      OBVIOUS
    <2>1. \A x \in present : x[2] = validity[x[1]]
      BY DEF Init
    <2> QED BY <2>1 DEF Init, NamesInv
  <1>2. TypeOK /\ DialogueInv /\ NamesInv /\ [Next]_vars => NamesInv'
    BY NamesStep
  <1> QED BY <1>1, <1>2, TypeCorrect, PTL DEF Spec

\* Under OneMailbox every step keeps to UIDs that have been told of the mailbox
\* they are noted for.
LEMMA LearnedStep ==
  ASSUME OneMailbox, TypeOK, DialogueInv, LearnedInv, [Next]_vars
  PROVE  LearnedInv'
  <1> USE ConstantsAssumption DEF OneMailbox, TypeOK, DialogueInv, LearnedInv,
          AfterFetch, OnMessages, Remembered, Journaled, Name, NoJournal, Torn, Journals
  <1>1. CASE StartAny
    BY <1>1 DEF StartAny, Start, read_journal
  <1>2. CASE Destroy
    BY <1>2 DEF Destroy, write_journal, Gone
  <1>3. CASE Crash
    BY <1>3 DEF Crash, Fault, Gone
  <1>4. CASE \E left \in SUBSET UIDs : CrashInWrite(left)
    BY <1>4 DEF CrashInWrite, Fault, Gone
  <1>5. CASE RemoveTorn
    BY <1>5 DEF RemoveTorn
  <1>6. CASE InputArrives
    BY <1>6 DEF InputArrives, loopRest
  <1>7. CASE ConnectionLost
    BY <1>7 DEF ConnectionLost, loopRest, Fault
  <1>8. CASE do_read_eof
    BY <1>8 DEF do_read_eof, loopRest
  <1>9. CASE do_read_error
    BY <1>9 DEF do_read_error, LeaveLoop
  <1>10. CASE do_signal
    BY <1>10 DEF do_signal, do_quit, async_finish, loopRest, Fault
  <1>11. CASE do_signal_again
    BY <1>11 DEF do_signal_again, LeaveLoop, Fault
  <1>12. CASE RunReturns
    BY <1>12 DEF RunReturns, LeaveLoop
  <1>13. CASE imap_data_exists
    BY <1>13 DEF imap_data_exists, callRest, More, Rearm, InHandler
  <1>14. CASE imap_status_code_uidvalidity
    <2>1. cmd \in {"c_select", "select"} /\ selected = mailbox /\ proc # "down"
      BY <1>14 DEF imap_status_code_uidvalidity, InHandler
    <2>2. Remembered' \subseteq Remembered
      BY <1>14 DEF imap_status_code_uidvalidity, callRest
    <2> QED BY <1>14, <2>1, <2>2 DEF imap_status_code_uidvalidity, callRest
  <1>15. CASE \E u \in UIDs : imap_data_fetch_begin(u)
    BY <1>15 DEF imap_data_fetch_begin, fetch_begin, callRest, More, Rearm, InHandler, Here
  <1>16. CASE \E u \in UIDs, parts \in SUBSET {"uid"} :
                imap_data_fetch_begin_unsolicited(u, parts)
    BY <1>16 DEF imap_data_fetch_begin_unsolicited, fetch_begin, Here, callRest, More, Rearm,
       InHandler
  <1>17. CASE simulate_error
    BY <1>17 DEF simulate_error, LeaveLoop, Fault, InHandler
  <1>18. CASE imap_uid
    BY <1>18 DEF imap_uid, callRest, More, Rearm, InHandler
  <1>19. CASE imap_body_section_inner
    BY <1>19 DEF imap_body_section_inner, callRest, More, Rearm, InHandler
  <1>20. CASE imap_body_section_end
    BY <1>20 DEF imap_body_section_end, callRest, More, Rearm, InHandler
  <1>21. CASE imap_data_fetch_end
    BY <1>21 DEF imap_data_fetch_end, callRest, More, Rearm, InHandler
  <1>22. CASE imap_data_fetch_end_without_uid
    BY <1>22 DEF imap_data_fetch_end_without_uid, InHandler, LeaveLoop
  <1>23. CASE do_post_login
    BY <1>23 DEF do_post_login, do_task, Send, Tagged, Rearm, InHandler
  <1>24. CASE cleanup_store
    BY <1>24 DEF cleanup_store, async_store, Send, Tagged, Rearm, InHandler
  <1>25. CASE cleanup_expunge
    BY <1>25 DEF cleanup_expunge, async_uid_or_simple_expunge, Send, Tagged, Rearm, InHandler
  <1>26. CASE cleanup_finish
    BY <1>26 DEF cleanup_finish, do_task, Send, Tagged, Rearm, InHandler
  <1>27. CASE task_selected
    BY <1>27 DEF task_selected, async_fetch, async_logout, Send, Tagged, Rearm, InHandler
  <1>28. CASE task_fetched
    BY <1>28 DEF task_fetched, async_store, async_logout, Send, Tagged, Rearm, InHandler
  <1>29. CASE task_stored
    BY <1>29 DEF task_stored, async_uid_or_simple_expunge, Send, Tagged, Rearm, InHandler
  <1>30. CASE task_expunged
    BY <1>30 DEF task_expunged, async_logout, Send, Tagged, Rearm, InHandler
  <1>31. CASE task_listed
    BY <1>31 DEF task_listed, async_logout, Send, Tagged, Rearm, InHandler
  <1>32. CASE task_logged_out
    BY <1>32 DEF task_logged_out, do_quit, async_finish, loopRest, Tagged, Rearm, InHandler
  <1>33. CASE empty_sequence
    BY <1>33 DEF empty_sequence, NeedsSequence, Tagged, InHandler, LeaveLoop
  <1>34. CASE imap_tagged_status_failed
    BY <1>34 DEF imap_tagged_status_failed, InHandler, LeaveLoop, Fault
  <1>35. CASE ServerSelect
    BY <1>35 DEF ServerSelect, Execute, serverRest
  <1>36. CASE ServerFetch
    BY <1>36 DEF ServerFetch, Execute, serverRest, Here
  <1>37. CASE ServerStore
    BY <1>37 DEF ServerStore, Execute, serverRest, Here, Name
  <1>38. CASE ServerExpunge
    BY <1>38 DEF ServerExpunge, Execute, serverRest, Here, Name
  <1>39. CASE ServerOther
    BY <1>39 DEF ServerOther, Execute, serverRest
  <1>40. CASE \E m \in Mailboxes, u \in UIDs : Arrive(m, u)
    BY <1>40 DEF Arrive, clientVars
  <1>41. CASE \E x \in present : OtherDeletes(x)
    BY <1>41 DEF OtherDeletes, clientVars, Fault
  <1>42. CASE \E m \in Mailboxes : OtherExpunges(m)
    BY <1>42 DEF OtherExpunges, clientVars, Fault
  <1>43. CASE \E m \in Mailboxes, v \in Validities : Renumber(m, v)
    BY <1>43 DEF Renumber, clientVars, Fault
  <1>44. CASE UNCHANGED vars
    BY <1>44 DEF vars
  <1>45. CASE imap_capability
    BY <1>45 DEF imap_capability, listRest, More, Rearm, InHandler
  <1>46. CASE imap_status_code_capability_begin
    BY <1>46 DEF imap_status_code_capability_begin, listRest, More, Rearm, InHandler
  <1>47. CASE ServerLogin
    BY <1>47 DEF ServerLogin, Execute, serverRest
  <1> QED
    BY <1>1, <1>2, <1>3, <1>4, <1>5, <1>6, <1>7, <1>8, <1>9, <1>10, <1>11, <1>12, <1>13, <1>14,
       <1>15, <1>16, <1>17, <1>18, <1>19, <1>20, <1>21, <1>22, <1>23, <1>24, <1>25, <1>26,
       <1>27, <1>28, <1>29, <1>30, <1>31, <1>32, <1>33, <1>34, <1>35, <1>36, <1>37, <1>38,
       <1>39, <1>40, <1>41, <1>42, <1>43, <1>44, <1>45, <1>46,
       <1>47
       DEF Next, Progress, resume, Mishap, Others, Callback, Continue, Serve

\* Each UID that STORE and UID EXPUNGE name has been told by the server of the
\* mailbox that is selected, under the UIDVALIDITY it has now, whatever the
\* server sends and whichever runs that do not delete come between, if the runs
\* that delete all use the same mailbox.
THEOREM UidsMatchSelectedAlways == OneMailbox => (Spec => []UidsMatchSelected)
  <1> SUFFICES ASSUME OneMailbox PROVE Spec => []UidsMatchSelected
    OBVIOUS
  <1>1. Init => LearnedInv
    <2>1. NoJournal \notin Journals
      BY ConstantsAssumption DEF NoJournal, Journals
    <2> QED BY <2>1 DEF Init, LearnedInv, Journaled
  <1>2. TypeOK /\ DialogueInv /\ LearnedInv /\ [Next]_vars => LearnedInv'
    BY LearnedStep
  <1>3. TypeOK /\ DialogueInv /\ LearnedInv => UidsMatchSelected
    <2> SUFFICES ASSUME DialogueInv, LearnedInv, srv = "sent",
                        cmd \in {"c_store", "c_expunge", "store", "expunge"},
                        TypeOK, NEW u \in arg
                 PROVE  Name(u) \in learned
      BY DEF UidsMatchSelected
    <2>1. proc # "down" /\ selected = mailbox /\ uidvalidity = validity[mailbox]
      BY DEF DialogueInv, OnMessages
    <2>2. u \in uids /\ Remembered \subseteq learned
      BY <2>1 DEF LearnedInv
    <2> QED BY <2>1, <2>2 DEF Remembered, Name
  <1> QED BY <1>1, <1>2, <1>3, TypeCorrect, PTL DEF Spec

\* Under DeletingRuns every step keeps track of the messages that are still to be
\* removed.
LEMMA TrackStep ==
  ASSUME DeletingRuns, TypeOK, DialogueInv, NamesInv, TrackInv, [Next]_vars
  PROVE  TrackInv'
  <1> USE ConstantsAssumption DEF DeletingRuns, OneMailbox, TypeOK, DialogueInv, NamesInv, TrackInv,
          RemovalStages, Kept, FetchedAreTracked, Journaled, Remembered, OnMessages, Name,
          NoJournal, Torn, Journals
  <1>1. CASE StartAny
    BY <1>1 DEF StartAny, Start, read_journal
  <1>2. CASE Destroy
    BY <1>2 DEF Destroy, write_journal, Gone
  <1>3. CASE Crash
    BY <1>3 DEF Crash, Fault, Gone
  <1>4. CASE \E left \in SUBSET UIDs : CrashInWrite(left)
    BY <1>4 DEF CrashInWrite, Fault, Gone
  <1>5. CASE RemoveTorn
    BY <1>5 DEF RemoveTorn
  <1>6. CASE InputArrives
    BY <1>6 DEF InputArrives, loopRest
  <1>7. CASE ConnectionLost
    BY <1>7 DEF ConnectionLost, loopRest, Fault
  <1>8. CASE do_read_eof
    BY <1>8 DEF do_read_eof, loopRest
  <1>9. CASE do_read_error
    BY <1>9 DEF do_read_error, LeaveLoop
  <1>10. CASE do_signal
    BY <1>10 DEF do_signal, do_quit, async_finish, loopRest, Fault
  <1>11. CASE do_signal_again
    BY <1>11 DEF do_signal_again, LeaveLoop, Fault
  <1>12. CASE RunReturns
    BY <1>12 DEF RunReturns, LeaveLoop
  <1>13. CASE imap_data_exists
    BY <1>13 DEF imap_data_exists, callRest, More, Rearm, InHandler
  <1>14. CASE imap_status_code_uidvalidity
    BY <1>14 DEF imap_status_code_uidvalidity, callRest, More, Rearm, InHandler
  <1>15. CASE \E u \in UIDs : imap_data_fetch_begin(u)
    BY <1>15 DEF imap_data_fetch_begin, fetch_begin, callRest, More, Rearm, InHandler
  <1>16. CASE \E u \in UIDs, parts \in SUBSET {"uid"} :
                imap_data_fetch_begin_unsolicited(u, parts)
    BY <1>16 DEF imap_data_fetch_begin_unsolicited, fetch_begin, Here, callRest, More, Rearm,
       InHandler
  <1>17. CASE simulate_error
    BY <1>17 DEF simulate_error, LeaveLoop, Fault, InHandler
  <1>18. CASE imap_uid
    BY <1>18 DEF imap_uid, callRest, More, Rearm, InHandler
  <1>19. CASE imap_body_section_inner
    BY <1>19 DEF imap_body_section_inner, callRest, More, Rearm, InHandler
  <1>20. CASE imap_body_section_end
    BY <1>20 DEF imap_body_section_end, callRest, More, Rearm, InHandler
  <1>21. CASE imap_data_fetch_end
    BY <1>21 DEF imap_data_fetch_end, callRest, More, Rearm, InHandler
  <1>22. CASE imap_data_fetch_end_without_uid
    BY <1>22 DEF imap_data_fetch_end_without_uid, InHandler, LeaveLoop
  <1>23. CASE do_post_login
    BY <1>23 DEF do_post_login, do_task, Send, Tagged, Rearm, InHandler
  <1>24. CASE cleanup_store
    BY <1>24 DEF cleanup_store, async_store, Send, Tagged, Rearm, InHandler
  <1>25. CASE cleanup_expunge
    BY <1>25 DEF cleanup_expunge, async_uid_or_simple_expunge, Send, Tagged, Rearm, InHandler
  <1>26. CASE cleanup_finish
    BY <1>26 DEF cleanup_finish, do_task, Send, Tagged, Rearm, InHandler
  <1>27. CASE task_selected
    BY <1>27 DEF task_selected, async_fetch, async_logout, Send, Tagged, Rearm, InHandler
  <1>28. CASE task_fetched
    BY <1>28 DEF task_fetched, async_store, async_logout, Send, Tagged, Rearm, InHandler
  <1>29. CASE task_stored
    BY <1>29 DEF task_stored, async_uid_or_simple_expunge, Send, Tagged, Rearm, InHandler
  <1>30. CASE task_expunged
    BY <1>30 DEF task_expunged, async_logout, Send, Tagged, Rearm, InHandler
  <1>31. CASE task_listed
    BY <1>31 DEF task_listed, async_logout, Send, Tagged, Rearm, InHandler
  <1>32. CASE task_logged_out
    BY <1>32 DEF task_logged_out, do_quit, async_finish, loopRest, Tagged, Rearm, InHandler
  <1>33. CASE empty_sequence
    BY <1>33 DEF empty_sequence, NeedsSequence, Tagged, InHandler, LeaveLoop
  <1>34. CASE imap_tagged_status_failed
    BY <1>34 DEF imap_tagged_status_failed, InHandler, LeaveLoop, Fault
  <1>35. CASE ServerSelect
    BY <1>35 DEF ServerSelect, Execute, serverRest
  <1>36. CASE ServerFetch
    BY <1>36 DEF ServerFetch, Execute, serverRest, Here
  <1>37. CASE ServerStore
    <2>a. proc # "down" /\ srv = "sent" /\ cmd \in {"c_store", "store"}
      BY <1>37 DEF ServerStore, Execute
    <2>b. mailbox = selected /\ uidvalidity = validity[selected]
      BY <2>a
    <2>c. Kept \subseteq Remembered /\ uids \subseteq UIDs
      BY <2>a
    <2>d. \A x \in Kept : x \in present /\ x[3] \in arg
      BY <2>a
    <2>1. \A x \in Kept : x = Name(x[3]) /\ x[3] \in arg \cap Here
      <3> SUFFICES ASSUME NEW x \in Kept
                   PROVE  x = Name(x[3]) /\ x[3] \in arg \cap Here
        OBVIOUS
      <3> PICK u \in uids : x = <<mailbox, uidvalidity, u>>
        BY <2>c
      <3> QED BY <2>b, <2>c, <2>d DEF Here
    <2>2. Kept \subseteq {Name(u) : u \in arg \cap Here}
      BY <2>1
    <2>3. Kept' = Kept /\ Kept \subseteq deleted'
      BY <1>37, <2>2 DEF ServerStore, Execute, serverRest
    <2> QED BY <1>37, <2>3 DEF ServerStore, Execute, serverRest
  <1>38. CASE ServerExpunge
    BY <1>38, SMTT(30) DEF ServerExpunge, Execute, serverRest, Here, Name
  <1>39. CASE ServerOther
    BY <1>39 DEF ServerOther, Execute, serverRest
  <1>40. CASE \E m \in Mailboxes, u \in UIDs : Arrive(m, u)
    BY <1>40 DEF Arrive, clientVars
  <1>41. CASE \E x \in present : OtherDeletes(x)
    BY <1>41 DEF OtherDeletes, clientVars, Fault
  <1>42. CASE \E m \in Mailboxes : OtherExpunges(m)
    BY <1>42 DEF OtherExpunges, clientVars, Fault
  <1>43. CASE \E m \in Mailboxes, v \in Validities : Renumber(m, v)
    BY <1>43 DEF Renumber, clientVars, Fault
  <1>44. CASE UNCHANGED vars
    BY <1>44 DEF vars
  <1>45. CASE imap_capability
    BY <1>45 DEF imap_capability, listRest, More, Rearm, InHandler
  <1>46. CASE imap_status_code_capability_begin
    BY <1>46 DEF imap_status_code_capability_begin, listRest, More, Rearm, InHandler
  <1>47. CASE ServerLogin
    BY <1>47 DEF ServerLogin, Execute, serverRest
  <1> QED
    BY <1>1, <1>2, <1>3, <1>4, <1>5, <1>6, <1>7, <1>8, <1>9, <1>10, <1>11, <1>12, <1>13, <1>14,
       <1>15, <1>16, <1>17, <1>18, <1>19, <1>20, <1>21, <1>22, <1>23, <1>24, <1>25, <1>26,
       <1>27, <1>28, <1>29, <1>30, <1>31, <1>32, <1>33, <1>34, <1>35, <1>36, <1>37, <1>38,
       <1>39, <1>40, <1>41, <1>42, <1>43, <1>44, <1>45, <1>46,
       <1>47
       DEF Next, Progress, resume, Mishap, Others, Callback, Continue, Serve

\* If all runs delete, in one mailbox, a message that has been fetched completely
\* is not forgotten: uids_, and between runs the journal, name it until it is off the
\* server, whichever connection breaks, command fails or signal comes (a kill
\* excepted), also with unsolicited responses and reads that overtake a signal.
THEOREM FetchedAreTrackedAlways == DeletingRuns => (Spec => []FetchedAreTracked)
  <1> SUFFICES ASSUME DeletingRuns PROVE Spec => []FetchedAreTracked
    OBVIOUS
  <1>1. Init => TrackInv
    <2>1. NoJournal \notin Journals
      BY ConstantsAssumption DEF NoJournal, Journals
    <2> QED BY <2>1 DEF Init, TrackInv, FetchedAreTracked, RemovalStages, Kept
  <1>2. TypeOK /\ DialogueInv /\ NamesInv /\ TrackInv /\ [Next]_vars => TrackInv'
    BY TrackStep
  <1>3. TrackInv => FetchedAreTracked
    BY DEF TrackInv
  <1> QED BY <1>1, <1>2, <1>3, TypeCorrect, NamesAlways, PTL DEF Spec

\* Under CautiousUse every step keeps UID EXPUNGE away from the messages that
\* others have flagged.
LEMMA SparesStep ==
  ASSUME CautiousUse, ~StrayCodes, SafetyInv, NamesInv, SparesInv, [Next]_vars
  PROVE  SparesInv'
  <1> USE ConstantsAssumption DEF CautiousUse, SafetyInv, TypeOK, DialogueInv, FetchInv, TrustInv,
          MemoryTrust, NamesInv, SparesInv, UidplusSparesOthers, OnMessages, CleaningUp,
          CleanupCommands, Remembered, Name
  <1>1. CASE StartAny
    BY <1>1 DEF StartAny, Start, read_journal
  <1>2. CASE Destroy
    BY <1>2 DEF Destroy, write_journal, Gone
  <1>3. CASE Crash
    BY <1>3 DEF Crash, Fault, Gone
  <1>4. CASE \E left \in SUBSET UIDs : CrashInWrite(left)
    BY <1>4 DEF CrashInWrite, Fault, Gone
  <1>5. CASE RemoveTorn
    BY <1>5 DEF RemoveTorn
  <1>6. CASE InputArrives
    BY <1>6 DEF InputArrives, loopRest
  <1>7. CASE ConnectionLost
    BY <1>7 DEF ConnectionLost, loopRest, Fault
  <1>8. CASE do_read_eof
    BY <1>8 DEF do_read_eof, loopRest
  <1>9. CASE do_read_error
    BY <1>9 DEF do_read_error, LeaveLoop
  <1>10. CASE do_signal
    BY <1>10 DEF do_signal, do_quit, async_finish, loopRest, Fault
  <1>11. CASE do_signal_again
    BY <1>11 DEF do_signal_again, LeaveLoop, Fault
  <1>12. CASE RunReturns
    BY <1>12 DEF RunReturns, LeaveLoop
  <1>13. CASE imap_data_exists
    BY <1>13 DEF imap_data_exists, callRest, More, Rearm, InHandler
  <1>14. CASE imap_status_code_uidvalidity
    BY <1>14 DEF imap_status_code_uidvalidity, callRest, More, Rearm, InHandler
  <1>15. CASE \E u \in UIDs : imap_data_fetch_begin(u)
    BY <1>15 DEF imap_data_fetch_begin, fetch_begin, callRest, More, Rearm, InHandler
  <1>16. CASE \E u \in UIDs, parts \in SUBSET {"uid"} :
                imap_data_fetch_begin_unsolicited(u, parts)
    BY <1>16 DEF imap_data_fetch_begin_unsolicited, fetch_begin, Here, callRest, More, Rearm,
       InHandler
  <1>17. CASE simulate_error
    BY <1>17 DEF simulate_error, LeaveLoop, Fault, InHandler
  <1>18. CASE imap_uid
    BY <1>18 DEF imap_uid, callRest, More, Rearm, InHandler
  <1>19. CASE imap_body_section_inner
    BY <1>19 DEF imap_body_section_inner, callRest, More, Rearm, InHandler
  <1>20. CASE imap_body_section_end
    BY <1>20 DEF imap_body_section_end, callRest, More, Rearm, InHandler
  <1>21. CASE imap_data_fetch_end
    BY <1>21 DEF imap_data_fetch_end, callRest, More, Rearm, InHandler
  <1>22. CASE imap_data_fetch_end_without_uid
    BY <1>22 DEF imap_data_fetch_end_without_uid, InHandler, LeaveLoop
  <1>23. CASE do_post_login
    BY <1>23 DEF do_post_login, do_task, Send, Tagged, Rearm, InHandler
  <1>24. CASE cleanup_store
    BY <1>24 DEF cleanup_store, async_store, Send, Tagged, Rearm, InHandler
  <1>25. CASE cleanup_expunge
    BY <1>25 DEF cleanup_expunge, async_uid_or_simple_expunge, Send, Tagged, Rearm, InHandler
  <1>26. CASE cleanup_finish
    BY <1>26 DEF cleanup_finish, do_task, Send, Tagged, Rearm, InHandler
  <1>27. CASE task_selected
    BY <1>27 DEF task_selected, async_fetch, async_logout, Send, Tagged, Rearm, InHandler
  <1>28. CASE task_fetched
    BY <1>28 DEF task_fetched, async_store, async_logout, Send, Tagged, Rearm, InHandler
  <1>29. CASE task_stored
    BY <1>29 DEF task_stored, async_uid_or_simple_expunge, Send, Tagged, Rearm, InHandler
  <1>30. CASE task_expunged
    BY <1>30 DEF task_expunged, async_logout, Send, Tagged, Rearm, InHandler
  <1>31. CASE task_listed
    BY <1>31 DEF task_listed, async_logout, Send, Tagged, Rearm, InHandler
  <1>32. CASE task_logged_out
    BY <1>32 DEF task_logged_out, do_quit, async_finish, loopRest, Tagged, Rearm, InHandler
  <1>33. CASE empty_sequence
    BY <1>33 DEF empty_sequence, NeedsSequence, Tagged, InHandler, LeaveLoop
  <1>34. CASE imap_tagged_status_failed
    BY <1>34 DEF imap_tagged_status_failed, InHandler, LeaveLoop, Fault
  <1>35. CASE ServerSelect
    BY <1>35 DEF ServerSelect, Execute, serverRest
  <1>36. CASE ServerFetch
    BY <1>36 DEF ServerFetch, Execute, serverRest, Here
  <1>37. CASE ServerStore
    BY <1>37 DEF ServerStore, Execute, serverRest, Here, Name
  <1>38. CASE ServerExpunge
    <2> USE <1>38 DEF ServerExpunge, Execute, serverRest
    <2>1. CASE ~uidplus
      BY <2>1
    <2>2. CASE uidplus
      <3>1. arg = uids /\ arg # {} /\ collateral = {}
        BY <2>2
      <3>2. \A u \in uids : Name(u) \in deleted => Name(u) \in ours
        BY <2>2
      <3>3. collateral' = {}
        BY <3>1, <3>2
      <3> QED BY <2>2, <3>1, <3>3
    <2> QED BY <2>1, <2>2
  <1>39. CASE ServerOther
    BY <1>39 DEF ServerOther, Execute, serverRest
  <1>40. CASE \E m \in Mailboxes, u \in UIDs : Arrive(m, u)
    BY <1>40 DEF Arrive, clientVars
  <1>41. CASE \E x \in present : OtherDeletes(x)
    BY <1>41 DEF OtherDeletes, clientVars, Fault
  <1>42. CASE \E m \in Mailboxes : OtherExpunges(m)
    BY <1>42 DEF OtherExpunges, clientVars, Fault
  <1>43. CASE \E m \in Mailboxes, v \in Validities : Renumber(m, v)
    BY <1>43 DEF Renumber, clientVars, Fault
  <1>44. CASE UNCHANGED vars
    BY <1>44 DEF vars
  <1>45. CASE imap_capability
    BY <1>45 DEF imap_capability, listRest, More, Rearm, InHandler
  <1>46. CASE imap_status_code_capability_begin
    BY <1>46 DEF imap_status_code_capability_begin, listRest, More, Rearm, InHandler
  <1>47. CASE ServerLogin
    BY <1>47 DEF ServerLogin, Execute, serverRest
  <1> QED
    BY <1>1, <1>2, <1>3, <1>4, <1>5, <1>6, <1>7, <1>8, <1>9, <1>10, <1>11, <1>12, <1>13, <1>14,
       <1>15, <1>16, <1>17, <1>18, <1>19, <1>20, <1>21, <1>22, <1>23, <1>24, <1>25, <1>26,
       <1>27, <1>28, <1>29, <1>30, <1>31, <1>32, <1>33, <1>34, <1>35, <1>36, <1>37, <1>38,
       <1>39, <1>40, <1>41, <1>42, <1>43, <1>44, <1>45, <1>46,
       <1>47
       DEF Next, Progress, resume, Mishap, Others, Callback, Continue, Serve

\* A server with UIDPLUS is never made to remove a message that only another
\* session has flagged: UID EXPUNGE names nothing but what the client's own STORE
\* has flagged before, in the clean-up after a restart too.  This takes a server
\* whose response codes leave capabilities_ alone.
THEOREM UidplusSparesOthersInCautiousUse ==
    CautiousUse /\ ~StrayCodes => (Spec => []UidplusSparesOthers)
  <1> SUFFICES ASSUME CautiousUse, ~StrayCodes PROVE Spec => []UidplusSparesOthers
    OBVIOUS
  <1>1. Init => SparesInv
    BY DEF Init, SparesInv, UidplusSparesOthers
  <1>2. SafetyInv /\ NamesInv /\ SparesInv /\ [Next]_vars => SparesInv'
    BY SparesStep
  <1>3. SparesInv => UidplusSparesOthers
    BY DEF SparesInv
  <1> QED BY <1>1, <1>2, <1>3, Safety, NamesAlways, PTL DEF Spec
=============================================================================
