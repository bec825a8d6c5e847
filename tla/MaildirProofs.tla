--------------------------- MODULE MaildirProofs ----------------------------
(***************************************************************************)
(* Proofs about Maildir, for every choice of its constants: MaildirInv is  *)
(* inductive, and the properties of the delivery and the refinement of     *)
(* Transfer follow from it.  Each conjunct of MaildirInv has a step lemma  *)
(* of its own, with one case for each action.                              *)
(***************************************************************************)
EXTENDS Maildir, TLAPS

USE DEF diskVars, fetchVars, noteVars
-----------------------------------------------------------------------------
\* The letters for any flags are maildir letters.
LEMMA LettersAreLetters ==
  ASSUME NEW S
  PROVE  LettersOf(S) \in SUBSET Letters
  BY DEF LettersOf, Letter, Letters

\* The initial state satisfies the inductive invariant: the disk is empty.
LEMMA InitInv == Init => MaildirInv
  <1> SUFFICES ASSUME Init PROVE MaildirInv
    OBVIOUS
  <1>1. TypeOK
    BY MaildirAssumption DEF Init, TypeOK, Steps, NoTarget
  <1>2. DeliveryInOrder /\ FlagsInOrder
    BY MaildirAssumption DEF Init, DeliveryInOrder, FlagsInOrder, InFlight
  <1>3. DiskInOrder /\ NotedIsDurable /\ NoTornMail /\ OwnFlags
    BY DEF Init, DiskInOrder, NotedIsDurable, NoTornMail, OwnFlags, Delivered
  <1> QED BY <1>1, <1>2, <1>3 DEF MaildirInv

\* Every step keeps the types.
LEMMA TypeStep ==
  ASSUME TypeOK, DeliveryInOrder, [Next]_mvars
  PROVE  TypeOK'
  <1> USE MaildirAssumption DEF TypeOK, Steps
  <1>1. CASE Start
    BY <1>1 DEF Start
  <1>2. CASE \E m \in Messages : imap_data_fetch_begin(m)
    BY <1>2 DEF imap_data_fetch_begin, Arrives
  <1>3. CASE imap_flag
    BY <1>3, LettersAreLetters DEF imap_flag
  <1>4. CASE \E n \in Names : imap_body_section_inner(n)
    BY <1>4 DEF imap_body_section_inner, Entries
  <1>5. CASE file_close
    BY <1>5 DEF file_close, DeliveryInOrder, InFlight
  <1>6. CASE linkat
    BY <1>6 DEF linkat, Entries, Moved, DeliveryInOrder, InFlight
  <1>7. CASE fsync
    BY <1>7 DEF fsync
  <1>8. CASE unlinkat
    BY <1>8 DEF unlinkat, NoTarget
  <1>9. CASE imap_data_fetch_end
    BY <1>9 DEF imap_data_fetch_end, DeliveryInOrder
  <1>10. CASE imap_uid
    BY <1>10 DEF imap_uid
  <1>11. CASE body_ignored
    BY <1>11 DEF body_ignored, DeliveryInOrder
  <1>12. CASE do_quit
    BY <1>12 DEF do_quit
  <1>13. CASE \E S \in SUBSET Messages : Remove(S)
    BY <1>13 DEF Remove, memVars
  <1>14. CASE Exit
    BY <1>14 DEF Exit, End, NoTarget
  <1>15. CASE PowerFailure
    BY <1>15 DEF PowerFailure, End, NoTarget
  <1>16. CASE UNCHANGED mvars
    BY <1>16 DEF mvars
  <1> QED
    BY <1>1, <1>2, <1>3, <1>4, <1>5, <1>6, <1>7, <1>8, <1>9, <1>10, <1>11,
       <1>12, <1>13, <1>14, <1>15, <1>16 DEF Next, Work

\* Nothing that is durable ceases to be so.
LEMMA DurableGrows ==
  ASSUME MaildirInv, [Next]_mvars
  PROVE  Durable \subseteq Durable'
  <1> SUFFICES ASSUME NEW x \in Delivered(stable), x[2] \in synced
               PROVE  /\ x \in Delivered(stable')
                      /\ x[2] \in synced'
                      /\ owner'[x[2]] = owner[x[2]]
    BY DEF Durable
  <1>0. x \in stable /\ x \in entries /\ x[1] # "tmp" /\ x \in Entries
    BY DEF MaildirInv, DiskInOrder, TypeOK, Delivered
  <1>x. x[2] \in Names /\ owner[x[2]] \in Messages
    BY <1>0 DEF MaildirInv, DiskInOrder, Entries
  <1> USE <1>0, <1>x, MaildirAssumption DEF MaildirInv, TypeOK, Delivered
  <1>1. CASE Start
    BY <1>1 DEF Start
  <1>2. CASE \E m \in Messages : imap_data_fetch_begin(m)
    BY <1>2 DEF imap_data_fetch_begin, Arrives
  <1>3. CASE imap_flag
    BY <1>3 DEF imap_flag
  <1>4. CASE \E n \in Names : imap_body_section_inner(n)
    BY <1>4 DEF imap_body_section_inner
  <1>5. CASE file_close
    BY <1>5 DEF file_close
  <1>6. CASE linkat
    BY <1>6 DEF linkat
  <1>7. CASE fsync
    BY <1>7 DEF fsync
  <1>8. CASE unlinkat
    BY <1>8 DEF unlinkat
  <1>9. CASE imap_data_fetch_end
    BY <1>9 DEF imap_data_fetch_end
  <1>10. CASE imap_uid
    BY <1>10 DEF imap_uid
  <1>11. CASE body_ignored
    BY <1>11 DEF body_ignored
  <1>12. CASE do_quit
    BY <1>12 DEF do_quit
  <1>13. CASE \E S \in SUBSET Messages : Remove(S)
    BY <1>13 DEF Remove, memVars
  <1>14. CASE Exit
    BY <1>14 DEF Exit, End
  <1>15. CASE PowerFailure
    BY <1>15 DEF PowerFailure, End
  <1>16. CASE UNCHANGED mvars
    BY <1>16 DEF mvars
  <1> QED
    BY <1>1, <1>2, <1>3, <1>4, <1>5, <1>6, <1>7, <1>8, <1>9, <1>10, <1>11,
       <1>12, <1>13, <1>14, <1>15, <1>16 DEF Next, Work

\* What is on the disk stays in order.
LEMMA DiskStep ==
  ASSUME MaildirInv, [Next]_mvars
  PROVE  DiskInOrder'
  <1> USE MaildirAssumption DEF MaildirInv, TypeOK, DiskInOrder, Delivered, Entries
  <1>1. CASE Start
    BY <1>1 DEF Start
  <1>2. CASE \E m \in Messages : imap_data_fetch_begin(m)
    BY <1>2 DEF imap_data_fetch_begin, Arrives
  <1>3. CASE imap_flag
    BY <1>3 DEF imap_flag
  <1>4. CASE \E n \in Names : imap_body_section_inner(n)
    <2> PICK n \in Names : imap_body_section_inner(n)
      BY <1>4
    <2>1. /\ owner[n] = NoMessage /\ cur \in Messages
          /\ owner' = [owner EXCEPT ![n] = cur]
          /\ entries' = entries \cup {<<"tmp", n, {}>>}
          /\ UNCHANGED <<stable, complete, synced>>
      BY DEF imap_body_section_inner, DeliveryInOrder
    <2>2. \A x \in entries' \cup stable' : owner'[x[2]] \in Messages
      <3> SUFFICES ASSUME NEW x \in entries' \cup stable'
                   PROVE  owner'[x[2]] \in Messages
        OBVIOUS
      <3>1. CASE x \in entries \cup stable
        BY <2>1, <3>1
      <3>2. CASE x = <<"tmp", n, {}>>
        BY <2>1, <3>2
      <3> QED BY <2>1, <3>1, <3>2
    <2>3. Delivered(stable') \subseteq entries'
      BY <2>1
    <2> QED BY <2>1, <2>2, <2>3
  <1>5. CASE file_close
    BY <1>5 DEF file_close
  <1>6. CASE linkat
    BY <1>6 DEF linkat, Moved, DeliveryInOrder, InFlight
  <1>7. CASE fsync
    BY <1>7 DEF fsync
  <1>8. CASE unlinkat
    BY <1>8 DEF unlinkat
  <1>9. CASE imap_data_fetch_end
    BY <1>9 DEF imap_data_fetch_end
  <1>10. CASE imap_uid
    BY <1>10 DEF imap_uid
  <1>11. CASE body_ignored
    BY <1>11 DEF body_ignored
  <1>12. CASE do_quit
    BY <1>12 DEF do_quit
  <1>13. CASE \E S \in SUBSET Messages : Remove(S)
    BY <1>13 DEF Remove, memVars
  <1>14. CASE Exit
    BY <1>14 DEF Exit, End
  <1>15. CASE PowerFailure
    BY <1>15 DEF PowerFailure, End
  <1>16. CASE UNCHANGED mvars
    BY <1>16 DEF mvars
  <1> QED
    BY <1>1, <1>2, <1>3, <1>4, <1>5, <1>6, <1>7, <1>8, <1>9, <1>10, <1>11,
       <1>12, <1>13, <1>14, <1>15, <1>16 DEF Next, Work

\* The delivery at hand stays in order.
LEMMA DeliveryStep ==
  ASSUME MaildirInv, TypeOK', [Next]_mvars
  PROVE  DeliveryInOrder'
  <1> USE MaildirAssumption DEF MaildirInv, TypeOK, DeliveryInOrder, InFlight,
                                Reading
  <1>a. Durable \subseteq Durable'
    BY DurableGrows
  <1>1. CASE Start
    BY <1>1, <1>a DEF Start
  <1>2. CASE \E m \in Messages : imap_data_fetch_begin(m)
    BY <1>2, <1>a DEF imap_data_fetch_begin, Arrives
  <1>3. CASE imap_flag
    BY <1>3, <1>a DEF imap_flag
  <1>4. CASE \E n \in Names : imap_body_section_inner(n)
    BY <1>4, <1>a DEF imap_body_section_inner
  <1>5. CASE file_close
    BY <1>5, <1>a DEF file_close
  <1>6. CASE linkat
    BY <1>6, <1>a DEF linkat, Moved
  <1>7. CASE fsync
    BY <1>7, <1>a DEF fsync, Moved
  <1>8. CASE unlinkat
    BY <1>8, <1>a DEF unlinkat, Moved, Durable, Delivered, DiskInOrder
  <1>9. CASE imap_data_fetch_end
    BY <1>9, <1>a DEF imap_data_fetch_end
  <1>10. CASE imap_uid
    BY <1>10, <1>a DEF imap_uid
  <1>11. CASE body_ignored
    BY <1>11, <1>a DEF body_ignored
  <1>12. CASE do_quit
    BY <1>12, <1>a DEF do_quit
  <1>13. CASE \E S \in SUBSET Messages : Remove(S)
    BY <1>13, <1>a DEF Remove, memVars, Moved, Durable
  <1>14. CASE Exit
    BY <1>14, <1>a DEF Exit, End
  <1>15. CASE PowerFailure
    BY <1>15, <1>a DEF PowerFailure, End
  <1>16. CASE UNCHANGED mvars
    BY <1>16, <1>a DEF mvars, Moved
  <1> QED
    BY <1>1, <1>2, <1>3, <1>4, <1>5, <1>6, <1>7, <1>8, <1>9, <1>10, <1>11,
       <1>12, <1>13, <1>14, <1>15, <1>16 DEF Next, Work

\* The flags stay in order.
LEMMA FlagsStep ==
  ASSUME MaildirInv, [Next]_mvars
  PROVE  FlagsInOrder'
  <1> USE MaildirAssumption DEF MaildirInv, TypeOK, FlagsInOrder, InFlight
  <1>1. CASE Start
    BY <1>1 DEF Start
  <1>2. CASE \E m \in Messages : imap_data_fetch_begin(m)
    BY <1>2 DEF imap_data_fetch_begin, Arrives
  <1>3. CASE imap_flag
    BY <1>3 DEF imap_flag
  <1>4. CASE \E n \in Names : imap_body_section_inner(n)
    BY <1>4 DEF imap_body_section_inner
  <1>5. CASE file_close
    BY <1>5 DEF file_close
  <1>6. CASE linkat
    BY <1>6 DEF linkat
  <1>7. CASE fsync
    BY <1>7 DEF fsync
  <1>8. CASE unlinkat
    BY <1>8 DEF unlinkat
  <1>9. CASE imap_data_fetch_end
    BY <1>9 DEF imap_data_fetch_end
  <1>10. CASE imap_uid
    BY <1>10 DEF imap_uid
  <1>11. CASE body_ignored
    BY <1>11 DEF body_ignored
  <1>12. CASE do_quit
    BY <1>12 DEF do_quit
  <1>13. CASE \E S \in SUBSET Messages : Remove(S)
    BY <1>13 DEF Remove, memVars
  <1>14. CASE Exit
    BY <1>14 DEF Exit, End
  <1>15. CASE PowerFailure
    BY <1>15 DEF PowerFailure, End
  <1>16. CASE UNCHANGED mvars
    BY <1>16 DEF mvars
  <1> QED
    BY <1>1, <1>2, <1>3, <1>4, <1>5, <1>6, <1>7, <1>8, <1>9, <1>10, <1>11,
       <1>12, <1>13, <1>14, <1>15, <1>16 DEF Next, Work

\* What is noted stays durable or a stray, and nothing else is noted.
LEMMA NotedStep ==
  ASSUME MaildirInv, [Next]_mvars
  PROVE  NotedIsDurable'
  <1> USE DEF MaildirInv, TypeOK, NotedIsDurable
  <1>a. Durable \subseteq Durable'
    BY DurableGrows
  <1>1. CASE Start
    BY <1>1, <1>a DEF Start
  <1>2. CASE \E m \in Messages : imap_data_fetch_begin(m)
    BY <1>2, <1>a DEF imap_data_fetch_begin, Arrives
  <1>3. CASE imap_flag
    BY <1>3, <1>a DEF imap_flag
  <1>4. CASE \E n \in Names : imap_body_section_inner(n)
    BY <1>4, <1>a DEF imap_body_section_inner
  <1>5. CASE file_close
    BY <1>5, <1>a DEF file_close
  <1>6. CASE linkat
    BY <1>6, <1>a DEF linkat
  <1>7. CASE fsync
    BY <1>7, <1>a DEF fsync
  <1>8. CASE unlinkat
    BY <1>8, <1>a DEF unlinkat
  <1>9. CASE imap_data_fetch_end
    BY <1>9, <1>a DEF imap_data_fetch_end, DeliveryInOrder
  <1>10. CASE imap_uid
    BY <1>10, <1>a DEF imap_uid
  <1>11. CASE body_ignored
    BY <1>11, <1>a DEF body_ignored
  <1>12. CASE do_quit
    BY <1>12, <1>a DEF do_quit
  <1>13. CASE \E S \in SUBSET Messages : Remove(S)
    BY <1>13, <1>a DEF Remove, memVars
  <1>14. CASE Exit
    BY <1>14, <1>a DEF Exit, End
  <1>15. CASE PowerFailure
    BY <1>15, <1>a DEF PowerFailure, End
  <1>16. CASE UNCHANGED mvars
    BY <1>16, <1>a DEF mvars
  <1> QED
    BY <1>1, <1>2, <1>3, <1>4, <1>5, <1>6, <1>7, <1>8, <1>9, <1>10, <1>11,
       <1>12, <1>13, <1>14, <1>15, <1>16 DEF Next, Work

\* Only whole messages get into new/ and cur/, and they stay whole.
LEMMA TornStep ==
  ASSUME MaildirInv, [Next]_mvars
  PROVE  NoTornMail'
  <1> USE DEF MaildirInv, TypeOK, NoTornMail, Delivered
  <1>1. CASE Start
    BY <1>1 DEF Start
  <1>2. CASE \E m \in Messages : imap_data_fetch_begin(m)
    BY <1>2 DEF imap_data_fetch_begin, Arrives
  <1>3. CASE imap_flag
    BY <1>3 DEF imap_flag
  <1>4. CASE \E n \in Names : imap_body_section_inner(n)
    BY <1>4 DEF imap_body_section_inner
  <1>5. CASE file_close
    BY <1>5 DEF file_close
  <1>6. CASE linkat
    BY <1>6 DEF linkat, Moved, DeliveryInOrder
  <1>7. CASE fsync
    BY <1>7 DEF fsync
  <1>8. CASE unlinkat
    BY <1>8 DEF unlinkat
  <1>9. CASE imap_data_fetch_end
    BY <1>9 DEF imap_data_fetch_end
  <1>10. CASE imap_uid
    BY <1>10 DEF imap_uid
  <1>11. CASE body_ignored
    BY <1>11 DEF body_ignored
  <1>12. CASE do_quit
    BY <1>12 DEF do_quit
  <1>13. CASE \E S \in SUBSET Messages : Remove(S)
    BY <1>13 DEF Remove, memVars
  <1>14. CASE Exit
    BY <1>14 DEF Exit, End
  <1>15. CASE PowerFailure
    BY <1>15 DEF PowerFailure, End, DiskInOrder
  <1>16. CASE UNCHANGED mvars
    BY <1>16 DEF mvars
  <1> QED
    BY <1>1, <1>2, <1>3, <1>4, <1>5, <1>6, <1>7, <1>8, <1>9, <1>10, <1>11,
       <1>12, <1>13, <1>14, <1>15, <1>16 DEF Next, Work

\* Messages get into new/ and cur/ with their own flags, and keep them.
LEMMA OwnFlagsStep ==
  ASSUME MaildirInv, [Next]_mvars
  PROVE  OwnFlags'
  <1> USE MaildirAssumption DEF MaildirInv, TypeOK, OwnFlags, Delivered, Entries
  <1>1. CASE Start
    BY <1>1 DEF Start
  <1>2. CASE \E m \in Messages : imap_data_fetch_begin(m)
    BY <1>2 DEF imap_data_fetch_begin, Arrives
  <1>3. CASE imap_flag
    BY <1>3 DEF imap_flag
  <1>4. CASE \E n \in Names : imap_body_section_inner(n)
    BY <1>4 DEF imap_body_section_inner, DiskInOrder
  <1>5. CASE file_close
    BY <1>5 DEF file_close
  <1>6. CASE linkat
    <2>1. /\ entries' = entries \cup {Moved}
          /\ UNCHANGED owner
      BY <1>6 DEF linkat
    <2> DEFINE own == LettersOf(FlagsOf[cur])
    <2>2. /\ flags \in {{}, own}
          /\ FlagsFirst => flags = own
          /\ owner[name] = cur
          /\ target = IF flags = {} THEN <<"new", {}>> ELSE <<"cur", flags>>
      BY <1>6 DEF linkat, DeliveryInOrder, FlagsInOrder, InFlight
    <2> HIDE DEF own
    <2>3. /\ Moved[2] = name /\ Moved[3] = flags
          /\ Moved[1] = "new" <=> flags = {}
      BY <2>2 DEF Moved
    <2>4. /\ Moved[3] \in {{}, own}
          /\ FlagsFirst => Moved[3] = own
          /\ Moved[1] = "new" <=> Moved[3] = {}
      BY <2>2, <2>3
    <2>5. own = LettersOf(FlagsOf[owner[Moved[2]]])
      BY <2>2, <2>3 DEF own
    <2> QED BY <2>1, <2>4, <2>5
  <1>7. CASE fsync
    BY <1>7 DEF fsync
  <1>8. CASE unlinkat
    BY <1>8 DEF unlinkat
  <1>9. CASE imap_data_fetch_end
    BY <1>9 DEF imap_data_fetch_end
  <1>10. CASE imap_uid
    BY <1>10 DEF imap_uid
  <1>11. CASE body_ignored
    BY <1>11 DEF body_ignored
  <1>12. CASE do_quit
    BY <1>12 DEF do_quit
  <1>13. CASE \E S \in SUBSET Messages : Remove(S)
    BY <1>13 DEF Remove, memVars
  <1>14. CASE Exit
    BY <1>14 DEF Exit, End
  <1>15. CASE PowerFailure
    BY <1>15 DEF PowerFailure, End, DiskInOrder
  <1>16. CASE UNCHANGED mvars
    BY <1>16 DEF mvars
  <1> QED
    BY <1>1, <1>2, <1>3, <1>4, <1>5, <1>6, <1>7, <1>8, <1>9, <1>10, <1>11,
       <1>12, <1>13, <1>14, <1>15, <1>16 DEF Next, Work

\* The inductive invariant holds in every state.
THEOREM MaildirCorrect == Spec => []MaildirInv
  <1>1. ASSUME MaildirInv, [Next]_mvars PROVE MaildirInv'
    <2>1. TypeOK'
      BY <1>1, TypeStep DEF MaildirInv
    <2> QED
      BY <1>1, <2>1, DiskStep, DeliveryStep, FlagsStep, NotedStep, TornStep,
         OwnFlagsStep DEF MaildirInv
  <1> QED BY InitInv, <1>1, PTL DEF Spec

\* A message counts as transferred only when it is durable, unless a response
\* has brought no body of it.
THEOREM DurableBeforeNoted == Spec => []NotedIsDurable
  <1>1. MaildirInv => NotedIsDurable
    BY DEF MaildirInv
  <1> QED BY MaildirCorrect, <1>1, PTL

\* Mail readers only ever find whole messages.
THEOREM OnlyWholeMessages == Spec => []NoTornMail
  <1>1. MaildirInv => NoTornMail
    BY DEF MaildirInv
  <1> QED BY MaildirCorrect, <1>1, PTL

\* Messages are delivered with their own flags, in whatever order the server
\* sends the parts of a message.
THEOREM FlagsAreOwn == Spec => []OwnFlags
  <1>1. MaildirInv => OwnFlags
    BY DEF MaildirInv
  <1> QED BY MaildirCorrect, <1>1, PTL

\* Every step of the delivery is a step of Transfer or leaves its variables
\* alone.
LEMMA TransferStep ==
  ASSUME SyncOnClose, MaildirInv, MaildirInv', [Next]_mvars
  PROVE  [T!Next]_(T!tvars)
  <1>1. Durable \subseteq Durable'
    BY DurableGrows
  <1>2. Durable' \in SUBSET Messages
    BY DEF MaildirInv, DiskInOrder, Durable, Delivered
  <1>3. CASE \E S \in SUBSET Messages : Remove(S)
    <2>1. UNCHANGED <<Durable, strays>>
      BY <1>3 DEF Remove, Durable
    <2>2. T!Purge
      BY <1>3, <2>1 DEF Remove, T!Purge, MaildirInv, NotedIsDurable
    <2> QED BY <2>2 DEF T!Next
  <1>4. CASE UNCHANGED <<onServer, strays>>
    BY <1>1, <1>2, <1>4 DEF T!Save, T!Next
  <1>5. CASE body_ignored \/ \E m \in Messages : imap_data_fetch_begin(m)
    <2>1. UNCHANGED <<onServer, Durable>>
      BY <1>5 DEF body_ignored, imap_data_fetch_begin, Durable
    <2>2. strays \subseteq strays' /\ strays' \in SUBSET Messages
      BY <1>5 DEF body_ignored, imap_data_fetch_begin, Arrives, MaildirInv, TypeOK
    <2>3. T!Abandon
      BY <2>1, <2>2 DEF T!Abandon
    <2> QED BY <2>3 DEF T!Next
  <1>6. \/ UNCHANGED <<onServer, strays>>
        \/ body_ignored \/ \E m \in Messages : imap_data_fetch_begin(m)
        \/ \E S \in SUBSET Messages : Remove(S)
    BY DEF Next, Work, Start, imap_uid, imap_flag, imap_body_section_inner,
       file_close, linkat, fsync, unlinkat, imap_data_fetch_end, do_quit, Exit,
       PowerFailure, mvars
  <1> QED BY <1>3, <1>4, <1>5, <1>6

\* When closing a file syncs it, the delivery implements the abstract transfer of
\* messages over any failure and any FETCH responses, where a message of which a
\* response has brought no body counts as given up.
THEOREM ImplementsTransfer == SyncOnClose => (Spec => Implements)
  <1> SUFFICES ASSUME SyncOnClose PROVE Spec => Implements
    OBVIOUS
  <1>1. Init => T!Init
    BY DEF Init, T!Init, Durable, Delivered
  <1>2. MaildirInv /\ MaildirInv' /\ [Next]_mvars => [T!Next]_(T!tvars)
    BY TransferStep
  <1> QED BY <1>1, <1>2, MaildirCorrect, PTL DEF Spec, Implements, T!Spec
=============================================================================
