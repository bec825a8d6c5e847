--------------------------- MODULE OptionsProofs ----------------------------
(***************************************************************************)
(* Proofs about Options, for every command line, run control file and      *)
(* chain of certificates.                                                  *)
(*                                                                         *)
(* The invariant says what opts is at each phase of the start, in terms of *)
(* the command line and the account's section; that these are the options  *)
(* the user wants is then a matter of comparing two ways to merge.         *)
(***************************************************************************)
EXTENDS Options, TLAPS

Running == {"loaded", "notified", "fixed", "verified", "handshake", "connected"}
Fixed == {"fixed", "verified", "handshake", "connected"}

\* The options after load() and after po::notify().
FromSection == [k \in Keys |-> (Section ++ KeyDefault)[k]]
Merged == argv ++ OptionDefault ++ FromSection

\* What has been checked on the way to a phase, and what opts is in it.
OptsInv ==
    /\ phase \in Phases /\ rcExists \in BOOLEAN /\ rc \in RcFiles \cup {DefaultRc}
    /\ phase # "idle" => argv \in CommandLines
    /\ phase \in Running => /\ Required \subseteq DOMAIN Section
                            /\ DOMAIN Section \subseteq Keys \cup {Comment}
    /\ phase = "loaded" => opts = FromSection
    /\ phase = "notified" => opts = Merged
    /\ phase \in Fixed => opts = Derived(Merged) /\ Fixable(Merged)
    /\ Settled => opts["host"] # "" /\ opts["maildir"] # ""

\* What the server has shown so far.
ShownInv ==
    /\ result \in BOOLEAN
    /\ phase \notin {"handshake", "connected", "failed"} =>
           chain = <<>> /\ pos = 0 /\ result = FALSE
    /\ chain = <<>> => pos = 0
    /\ chain # <<>> => chain \in Chains /\ pos \in 0 .. Len(chain)
    /\ phase = "handshake" => chain # <<>> /\ pos < Len(chain)
    /\ phase = "connected" /\ opts["ssl"] => chain # <<>> /\ pos = Len(chain)
    /\ phase \in {"handshake", "connected"} /\ pos > 0 =>
          IF opts["fp"] # "" THEN result /\ chain[1].fp = opts["fp"]
          ELSE /\ ~result
               /\ \A i \in 1 .. pos : chain[i].preverified
               /\ pos = Len(chain) => chain[pos].host = opts["cert_host"]
    /\ phase = "handshake" /\ pos = 0 => ~result
-----------------------------------------------------------------------------
\* Merging: where the values come from.
LEMMA MergeDomain ==
  ASSUME NEW f, NEW g PROVE DOMAIN (f ++ g) = DOMAIN f \cup DOMAIN g
  BY DEF ++

LEMMA MergeLeft ==
  ASSUME NEW f, NEW g, NEW k \in DOMAIN f PROVE (f ++ g)[k] = f[k]
  BY DEF ++

LEMMA MergeRight ==
  ASSUME NEW f, NEW g, NEW k \in DOMAIN g, k \notin DOMAIN f PROVE (f ++ g)[k] = g[k]
  BY DEF ++

LEMMA Domains ==
  /\ DOMAIN KeyDefault = Keys \ Required
  /\ Keys \cap DOMAIN OptionDefault = {"journal"}
  /\ {"account", "header", "list", "journal"} \subseteq DOMAIN OptionDefault
  /\ {"account", "header", "list", Comment} \cap Keys = {}
  /\ "journal" \in Keys
  /\ Comment \notin DOMAIN OptionDefault
  BY DEF KeyDefault, OptionDefault, Keys, Required, Comment

LEMMA OptsInit == Init => OptsInv /\ ShownInv
  BY DEF Init, Idle, OptsInv, ShownInv, Phases, Ended, Running, Fixed, Settled

\* Every step of the start keeps OptsInv.
LEMMA OptsStep == OptsInv /\ [Next]_vars => OptsInv'
  <1> SUFFICES ASSUME OptsInv, [Next]_vars PROVE OptsInv'
    OBVIOUS
  <1> USE DEF OptsInv, Phases, Ended, Running, Fixed, Settled
  <1>1. CASE Edit
    BY <1>1 DEF Edit
  <1>2. CASE Begin
    BY <1>2 DEF Begin
  <1>3. CASE End
    BY <1>3 DEF End
  <1>4. CASE store
    BY <1>4 DEF store
  <1>5. CASE check_configfile
    BY <1>5 DEF check_configfile, Stored
  <1>6. CASE load
    BY <1>6 DEF load, Stored, Section, FromSection
  <1>7. CASE notify
    BY <1>7 DEF notify, Section, FromSection, Merged
  <1>8. CASE fix
    BY <1>8 DEF fix, Section, FromSection, Merged
  <1>9. CASE verify
    BY <1>9 DEF verify, Section, FromSection, Merged
  <1>10. CASE apply
    BY <1>10 DEF apply, Section, FromSection, Merged
  <1>11. CASE verify_certificate
    BY <1>11 DEF verify_certificate, Section, FromSection, Merged
  <1>12. CASE UNCHANGED vars
    BY <1>12 DEF vars, Section, FromSection, Merged
  <1> QED BY <1>1, <1>2, <1>3, <1>4, <1>5, <1>6, <1>7, <1>8, <1>9, <1>10, <1>11, <1>12 DEF Next

\* A server presents at least one certificate.
LEMMA ChainLength ==
  ASSUME NEW c \in Chains
  PROVE  c # <<>> /\ Len(c) \in Nat /\ Len(c) > 0 /\ DOMAIN c = 1 .. Len(c)
  <1>1. c \in Seq([fp : STRING, preverified : BOOLEAN, host : STRING]) /\ c # <<>>
    BY OptionsAssumption
  <1> QED BY <1>1

\* Every step of the start, and every certificate, keeps ShownInv.
LEMMA ShownStep == OptsInv /\ ShownInv /\ [Next]_vars => ShownInv'
  <1> SUFFICES ASSUME OptsInv, ShownInv, [Next]_vars PROVE ShownInv'
    OBVIOUS
  <1> USE DEF ShownInv
  <1>1. CASE Edit \/ Begin
    BY <1>1 DEF Edit, Begin
  <1>2. CASE End
    BY <1>2 DEF End
  <1>3. CASE store \/ check_configfile \/ load
    BY <1>3 DEF store, check_configfile, load, Stored
  <1>4. CASE notify \/ fix \/ verify
    BY <1>4 DEF notify, fix, verify
  <1>5. CASE apply
    <2>1. /\ phase = "verified" /\ chain = <<>> /\ pos = 0 /\ result = FALSE
          /\ UNCHANGED <<opts, pos, result>>
      BY <1>5 DEF apply
    <2>2. CASE phase' = "handshake"
      <3>1. chain' \in Chains
        BY <1>5, <2>2 DEF apply
      <3>2. chain' # <<>> /\ Len(chain') \in Nat /\ Len(chain') > 0
        BY <3>1, ChainLength
      <3> QED BY <2>1, <2>2, <3>1, <3>2
    <2>3. CASE phase' # "handshake"
      <3>1. UNCHANGED chain /\ (phase' = "connected" => ~opts["ssl"])
            /\ phase' \in {"connected", "failed"}
        BY <1>5, <2>3 DEF apply
      <3> QED BY <2>1, <3>1
    <2> QED BY <2>2, <2>3
  <1>6. CASE verify_certificate
    <2> DEFINE cert == chain[pos + 1]
               last == pos + 1 = Len(chain)
               ok == Verdict(cert, last)
    <2> HIDE DEF ShownInv
    <2>1. /\ phase = "handshake" /\ UNCHANGED <<opts, chain>> /\ pos' = pos + 1
          /\ phase' = IF ~ok THEN "failed" ELSE IF last THEN "connected" ELSE "handshake"
          /\ result' = (result \/ (opts["fp"] # "" /\ pos = 0 /\ ok))
      BY <1>6 DEF verify_certificate
    <2>2. chain # <<>> /\ chain \in Chains /\ pos \in 0 .. Len(chain) /\ pos < Len(chain)
      BY <2>1 DEF ShownInv
    <2>3. Len(chain) \in Nat /\ pos \in Nat
      <3>1. Len(chain) \in Nat
        BY <2>2, ChainLength
      <3> QED BY <2>2, <3>1
    <2>4. /\ result \in BOOLEAN
          /\ pos = 0 => ~result
          /\ pos > 0 /\ opts["fp"] # "" => result /\ chain[1].fp = opts["fp"]
          /\ pos > 0 /\ opts["fp"] = "" => ~result /\ \A i \in 1 .. pos : chain[i].preverified
      BY <2>1 DEF ShownInv
    <2>5. /\ ok <=> phase' \in {"handshake", "connected"}
          /\ ok => (last <=> phase' = "connected")
          /\ phase' \in {"handshake", "connected", "failed"}
      <3> HIDE DEF ok, last
      <3> QED BY <2>1
    <2>6. /\ pos' > 0 /\ pos' \in 0 .. Len(chain) /\ pos' \in Nat
          /\ last <=> pos' = Len(chain)
      <3>1. pos' = pos + 1
        BY <2>1
      <3> QED BY <2>2, <2>3, <3>1
    <2>7. /\ result' \in BOOLEAN
          /\ phase' = "handshake" => pos' < Len(chain)
          /\ phase' = "connected" => pos' = Len(chain)
      <3>1. result' \in BOOLEAN
        BY <2>1
      <3>2. (phase' = "handshake" => ok /\ ~last) /\ (phase' = "connected" => ok /\ last)
        BY <2>5
      <3> QED BY <2>3, <2>6, <3>1, <3>2
    <2>8. ASSUME ok, opts["fp"] # ""
          PROVE  result' /\ chain[1].fp = opts["fp"]
      <3>1. CASE pos = 0
        <4>1. ~result
          BY <2>4, <3>1
        <4>2. cert = chain[1]
          BY <3>1
        <4>3. cert.fp = opts["fp"]
          <5> HIDE DEF cert, last
          <5> QED BY <2>8, <3>1, <4>1 DEF Verdict
        <4> QED BY <2>1, <2>8, <3>1, <4>2, <4>3
      <3>2. CASE pos > 0
        BY <2>1, <2>4, <2>8, <3>2
      <3> QED BY <2>3, <3>1, <3>2
    <2>9. ASSUME ok, opts["fp"] = ""
          PROVE  /\ ~result'
                 /\ \A i \in 1 .. pos' : chain[i].preverified
                 /\ last => chain[pos'].host = opts["cert_host"]
      <3>0. pos = 0 \/ pos > 0
        BY <2>3
      <3>1. ~result
        BY <2>4, <2>9, <3>0
      <3>2. ~result'
        BY <2>1, <2>9, <3>1
      <3>3. cert.preverified /\ (last => cert.host = opts["cert_host"])
        BY <2>9, <3>1 DEF Verdict, default_verification
      <3>4. \A i \in 1 .. pos : chain[i].preverified
        <4>1. CASE pos = 0
          BY <4>1
        <4>2. CASE pos > 0
          BY <2>4, <2>9, <4>2
        <4> QED BY <3>0, <4>1, <4>2
      <3>5. ASSUME NEW i \in 1 .. pos' PROVE chain[i].preverified
        <4>1. pos' = pos + 1
          BY <2>1
        <4>2. i \in 1 .. pos \/ i = pos + 1
          BY <2>3, <4>1
        <4> QED BY <3>3, <3>4, <4>2
      <3> QED BY <2>1, <3>2, <3>3, <3>5
    <2> HIDE DEF ok, last
    <2>10. phase' \in {"handshake", "connected"} /\ pos' > 0 =>
             IF opts["fp"] # "" THEN result' /\ chain[1].fp = opts["fp"]
             ELSE /\ ~result'
                  /\ \A i \in 1 .. pos' : chain[i].preverified
                  /\ pos' = Len(chain) => chain[pos'].host = opts["cert_host"]
      BY <2>5, <2>6, <2>8, <2>9
    <2>11. UNCHANGED <<opts, chain>>
      BY <2>1
    <2>12. pos' # 0
      BY <2>6
    <2>13. /\ chain' = <<>> => pos' = 0
           /\ chain' # <<>> => chain' \in Chains /\ pos' \in 0 .. Len(chain')
           /\ phase' = "handshake" => chain' # <<>> /\ pos' < Len(chain')
           /\ phase' = "connected" /\ opts'["ssl"] => chain' # <<>> /\ pos' = Len(chain')
      BY <2>2, <2>6, <2>7, <2>11
    <2>14. phase' \in {"handshake", "connected"} /\ pos' > 0 =>
             IF opts'["fp"] # "" THEN result' /\ chain'[1].fp = opts'["fp"]
             ELSE /\ ~result'
                  /\ \A i \in 1 .. pos' : chain'[i].preverified
                  /\ pos' = Len(chain') => chain'[pos'].host = opts'["cert_host"]
      BY <2>10, <2>11
    <2> QED BY <2>5, <2>7, <2>12, <2>13, <2>14 DEF ShownInv
  <1>7. CASE UNCHANGED vars
    BY <1>7 DEF vars
  <1> QED BY <1>1, <1>2, <1>3, <1>4, <1>5, <1>6, <1>7 DEF Next

LEMMA OptionsInvariant == Spec => [](OptsInv /\ ShownInv)
  <1>1. (OptsInv /\ ShownInv) /\ [Next]_vars => (OptsInv /\ ShownInv)'
    BY OptsStep, ShownStep
  <1> QED BY <1>1, OptsInit, PTL DEF Spec
-----------------------------------------------------------------------------
\* What the merged options are: the command line wins, then the section for the
\* keys it may have, then the defaults.  The journal is the exception: it has a
\* default on the command line, too, and that one wins over the section.
LEMMA MergedIsWanted ==
  ASSUME OptsInv, phase \in Running
  PROVE  /\ \A k \in (Keys \ {"journal"}) \cup {"header", "list", "account"} :
               Merged[k] = Wanted(k)
         /\ Merged["journal"] = (argv ++ OptionDefault)["journal"]
         /\ Keys \cup DOMAIN OptionDefault \subseteq DOMAIN Merged
  <1>0. Required \subseteq DOMAIN Section /\ DOMAIN Section \subseteq Keys \cup {Comment}
    BY DEF OptsInv
  <1>1. DOMAIN FromSection = Keys
    BY DEF FromSection
  <1>2. DOMAIN Merged = DOMAIN argv \cup DOMAIN OptionDefault \cup Keys
    BY <1>1, MergeDomain, ZenonT(30) DEF Merged
  <1>3. \A k : Wanted(k) = (argv ++ Section ++ OptionDefault ++ KeyDefault)[k]
    BY DEF Wanted
  <1>4. Merged["journal"] = (argv ++ OptionDefault)["journal"]
    BY Domains DEF Merged, ++
  <1>5. ASSUME NEW k \in (Keys \ {"journal"}) \cup {"header", "list", "account"}
        PROVE  Merged[k] = Wanted(k)
    <2>1. CASE k \in DOMAIN argv
      BY <1>3, <2>1 DEF Merged, ++
    <2>2. CASE k \notin DOMAIN argv /\ k \in {"header", "list", "account"}
      <3>1. k \in DOMAIN OptionDefault /\ k \notin DOMAIN Section
        BY <1>0, <2>2, Domains
      <3> QED BY <1>3, <2>2, <3>1 DEF Merged, ++
    <2>3. CASE k \notin DOMAIN argv /\ k \in Keys \ {"journal"}
      <3>1. k \notin DOMAIN OptionDefault /\ k \in Keys
        BY <2>3, Domains
      <3>2. Merged[k] = (Section ++ KeyDefault)[k]
        <4>1. Merged[k] = FromSection[k]
          BY <1>1, <2>3, <3>1 DEF Merged, ++
        <4> QED BY <3>1, <4>1 DEF FromSection
      <3>3. CASE k \in DOMAIN Section
        BY <1>3, <2>3, <3>2, <3>3 DEF ++
      <3>4. CASE k \notin DOMAIN Section
        <4>1. k \in DOMAIN KeyDefault
          BY <1>0, <2>3, <3>4, Domains
        <4> QED BY <1>3, <2>3, <3>1, <3>2, <3>4, <4>1 DEF ++
      <3> QED BY <3>3, <3>4
    <2> QED BY <2>1, <2>2, <2>3
  <1> QED BY <1>2, <1>4, <1>5

\* Derived() changes seven options and no other.
LEMMA DerivedValues ==
  ASSUME NEW o, Keys \cup DOMAIN OptionDefault \subseteq DOMAIN o
  PROVE  /\ DOMAIN o \subseteq DOMAIN Derived(o)
         /\ \A k \in Keys \ DerivedKeys :
               Derived(o)[k] = o[k]
         /\ Derived(o)["maildir"] = InHome(o["maildir"])
         /\ Derived(o)["cert_host"] = CertHost(o)
         /\ Derived(o)["cipher"] = IF o["cipher"] = "" THEN CipherOf[o["cipher_preset"]]
                                   ELSE o["cipher"]
         /\ Derived(o)["port"] = IF o["port"] = "" THEN IF o["ssl"] THEN "imaps" ELSE "imap"
                                 ELSE o["port"]
         /\ Derived(o)["journal"] = IF o["journal"] = "" THEN JournalOf(o["account"])
                                    ELSE o["journal"]
         /\ Derived(o)["task"] = Task(o)
  BY DEF Derived, ++, Keys, Required, DerivedKeys

\* The options from fix() on, in terms of what the user wants.
LEMMA OptionValues ==
  ASSUME OptsInv, phase \in Fixed
  PROVE  /\ \A k \in Keys \ DerivedKeys :
               opts[k] = Wanted(k)
         /\ opts["maildir"] = InHome(Wanted("maildir"))
         /\ opts["cert_host"] = WantedHost
         /\ opts["port"] = IF Wanted("port") = ""
                           THEN IF Wanted("ssl") THEN "imaps" ELSE "imap"
                           ELSE Wanted("port")
         /\ opts["journal"] \in {JournalOf(Wanted("account")), Merged["journal"]}
         /\ opts["journal"] = "" => JournalOf(Wanted("account")) = ""
         /\ opts["cipher"] = IF Wanted("cipher") = ""
                             THEN CipherOf[Wanted("cipher_preset")] ELSE Wanted("cipher")
         /\ opts["task"] = IF Wanted("list") THEN "LIST"
                           ELSE IF Wanted("header") THEN "FETCH_HEADER" ELSE "DOWNLOAD"
         /\ Wanted("cipher") = "" => Wanted("cipher_preset") \in 1 .. 3
         /\ Wanted("ip") \in {4, 6}
         /\ Keys \cup DOMAIN OptionDefault \subseteq DOMAIN opts
  <1>1. /\ \A k \in (Keys \ {"journal"}) \cup {"header", "list", "account"} :
              Merged[k] = Wanted(k)
        /\ Keys \cup DOMAIN OptionDefault \subseteq DOMAIN Merged
    BY MergedIsWanted DEF Running, Fixed
  <1>2. opts = Derived(Merged) /\ Fixable(Merged)
    BY DEF OptsInv
  <1>3. {"maildir", "cert_host", "host", "port", "ssl", "cipher", "cipher_preset",
         "ip"} \subseteq Keys \ {"journal"}
    BY DEF Keys
  <1>4. DOMAIN CipherOf = 1 .. 3
    BY DEF CipherOf
  <1>5. /\ DOMAIN Merged \subseteq DOMAIN opts
        /\ \A k \in Keys \ DerivedKeys :
              opts[k] = Merged[k]
        /\ opts["maildir"] = InHome(Merged["maildir"])
        /\ opts["cert_host"] = CertHost(Merged)
        /\ opts["cipher"] = IF Merged["cipher"] = "" THEN CipherOf[Merged["cipher_preset"]]
                            ELSE Merged["cipher"]
        /\ opts["port"] = IF Merged["port"] = ""
                          THEN IF Merged["ssl"] THEN "imaps" ELSE "imap"
                          ELSE Merged["port"]
        /\ opts["journal"] = IF Merged["journal"] = "" THEN JournalOf(Merged["account"])
                             ELSE Merged["journal"]
        /\ opts["task"] = Task(Merged)
    BY <1>1, <1>2, DerivedValues
  <1>6. \A k \in {"maildir", "cert_host", "host", "port", "ssl", "cipher",
                  "cipher_preset", "ip", "header", "list", "account"} : Merged[k] = Wanted(k)
    BY <1>1, <1>3
  <1>7. \A k \in Keys \ DerivedKeys :
           opts[k] = Wanted(k)
    <2>1. "journal" \in DerivedKeys
      BY DEF DerivedKeys
    <2> QED BY <1>1, <1>5, <2>1
  <1> HIDE DEF Wanted, Merged, Keys
  <1>8. /\ opts["cert_host"] = WantedHost
        /\ opts["maildir"] = InHome(Wanted("maildir"))
    BY <1>5, <1>6 DEF CertHost, WantedHost
  <1>9. opts["task"] = IF Wanted("list") THEN "LIST"
                       ELSE IF Wanted("header") THEN "FETCH_HEADER" ELSE "DOWNLOAD"
    BY <1>5, <1>6 DEF Task
  <1>10. /\ Wanted("cipher") = "" => Wanted("cipher_preset") \in 1 .. 3
         /\ Wanted("ip") \in {4, 6}
    BY <1>2, <1>4, <1>6 DEF Fixable
  <1> QED BY <1>1, <1>5, <1>6, <1>7, <1>8, <1>9, <1>10

\* The program runs with the options the user wants, whatever is on the command
\* line and in the file: each option comes from the place that wins, derived
\* options follow what has won, and whoever gets past the start has all it needs.
THEOREM EffectiveOptionsAlways == Spec => []EffectiveOptions
  <1>1. OptsInv /\ ShownInv => EffectiveOptions
    <2> SUFFICES ASSUME OptsInv, ShownInv PROVE EffectiveOptions
      OBVIOUS
    <2>1. pos \in 0 .. Len(chain)
      <3>1. CASE chain = <<>>
        BY <3>1 DEF ShownInv
      <3>2. CASE chain # <<>>
        BY <3>2 DEF ShownInv
      <3> QED BY <3>1, <3>2
    <2>2. phase = "loaded" => DOMAIN opts = Keys
      BY DEF OptsInv, FromSection
    <2>3. phase = "notified" => Keys \cup DOMAIN OptionDefault \subseteq DOMAIN opts
      BY MergedIsWanted DEF OptsInv, Running
    <2>4. phase \in Fixed => /\ Keys \cup DOMAIN OptionDefault \subseteq DOMAIN opts
                             /\ opts["task"] \in {"DOWNLOAD", "FETCH_HEADER", "LIST"}
      BY OptionValues
    <2>5. TypeOK
      BY <2>1, <2>2, <2>3, <2>4 DEF TypeOK, OptsInv, ShownInv, Fixed
    <2> SUFFICES ASSUME Settled
                 PROVE  /\ \A k \in Keys \ DerivedKeys : opts[k] = Wanted(k)
                        /\ opts["maildir"] = InHome(Wanted("maildir"))
                        /\ opts["cert_host"] = WantedHost
                        /\ opts["port"] = IF Wanted("port") # "" THEN Wanted("port")
                                          ELSE IF Wanted("ssl") THEN "imaps" ELSE "imap"
                        /\ opts["cipher"] = IF Wanted("cipher") # "" THEN Wanted("cipher")
                                            ELSE CipherOf[Wanted("cipher_preset")]
                        /\ opts["task"] = IF Wanted("list") THEN "LIST"
                                          ELSE IF Wanted("header") THEN "FETCH_HEADER"
                                          ELSE "DOWNLOAD"
                        /\ "" \notin {opts[k] : k \in DerivedKeys \cup {"host"}}
                        /\ opts["ip"] \in {4, 6}
      BY <2>5 DEF EffectiveOptions
    <2>6. phase \in Fixed
      BY DEF Settled, Fixed
    <2>7. opts["host"] # "" /\ opts["maildir"] # ""
      BY DEF OptsInv
    <2>8. {"host", "ip"} \subseteq Keys \ DerivedKeys
      BY DEF Keys, DerivedKeys
    <2>9. opts["host"] = Wanted("host") /\ opts["ip"] = Wanted("ip")
      BY <2>6, <2>8, OptionValues
    <2>10. opts["cert_host"] # "" /\ opts["cert_host"] = WantedHost
      BY <2>6, <2>7, <2>9, OptionValues DEF WantedHost
    <2>11. /\ opts["port"] # ""
           /\ opts["port"] = IF Wanted("port") # "" THEN Wanted("port")
                             ELSE IF Wanted("ssl") THEN "imaps" ELSE "imap"
      BY <2>6, OptionValues
    <2>12. /\ opts["cipher"] # ""
           /\ opts["cipher"] = IF Wanted("cipher") # "" THEN Wanted("cipher")
                               ELSE CipherOf[Wanted("cipher_preset")]
      <3>1. \A i \in 1 .. 3 : CipherOf[i] # ""
        <4>1. CipherOf[1] # "" /\ CipherOf[2] # "" /\ CipherOf[3] # ""
          BY DEF CipherOf
        <4>2. \A i \in 1 .. 3 : i = 1 \/ i = 2 \/ i = 3
          OBVIOUS
        <4> QED BY <4>1, <4>2
      <3> QED BY <2>6, <3>1, OptionValues
    <2>13. opts["journal"] # ""
      <3>1. argv \in CommandLines /\ DOMAIN Section \subseteq Keys \cup {Comment}
        BY <2>6 DEF OptsInv, Fixed, Running
      <3>2. Wanted("account") = (argv ++ OptionDefault)["account"]
        BY <3>1, Domains DEF Wanted, ++
      <3>3. JournalOf((argv ++ OptionDefault)["account"]) # ""
        BY <3>1, OptionsAssumption
      <3> QED BY <2>6, <3>2, <3>3, OptionValues
    <2>14. "" \notin {opts[k] : k \in DerivedKeys \cup {"host"}}
      BY <2>7, <2>10, <2>11, <2>12, <2>13 DEF DerivedKeys
    <2>15. /\ \A k \in Keys \ DerivedKeys : opts[k] = Wanted(k)
           /\ opts["maildir"] = InHome(Wanted("maildir")) /\ Wanted("ip") \in {4, 6}
           /\ opts["task"] = IF Wanted("list") THEN "LIST"
                             ELSE IF Wanted("header") THEN "FETCH_HEADER" ELSE "DOWNLOAD"
      BY <2>6, OptionValues
    <2> QED BY <2>9, <2>10, <2>11, <2>12, <2>14, <2>15
  <1> QED BY <1>1, OptionsInvariant, PTL

\* A TLS connection is only used if the server has authenticated itself in the way
\* the user wants, when that is by valid certificates, however long their chain is:
\* Verification has then seen all of it; or by the fingerprint of a certificate
\* that comes alone.
THEOREM AuthenticatedIfAloneAlways == Spec => []AuthenticatedIfAlone
  <1>1. OptsInv /\ ShownInv => AuthenticatedIfAlone
    <2> SUFFICES ASSUME OptsInv, ShownInv, phase = "connected", opts["ssl"],
                        Wanted("fp") = "" \/ Len(chain) = 1
                 PROVE  Authenticated
      BY DEF Authenticated, AuthenticatedIfAlone
    <2>1. chain # <<>> /\ chain \in Chains /\ pos = Len(chain)
      BY DEF ShownInv
    <2>2. Len(chain) \in Nat /\ Len(chain) > 0 /\ DOMAIN chain = 1 .. Len(chain)
      BY <2>1, ChainLength
    <2>3. IF opts["fp"] # "" THEN chain[1].fp = opts["fp"]
          ELSE /\ \A i \in 1 .. Len(chain) : chain[i].preverified
               /\ chain[Len(chain)].host = opts["cert_host"]
      BY <2>1, <2>2 DEF ShownInv
    <2>4. /\ opts["fp"] = Wanted("fp")
          /\ opts["cert_host"] = WantedHost
      <3>1. "fp" \in Keys \ DerivedKeys
        BY DEF Keys, DerivedKeys
      <3> QED BY <3>1, OptionValues DEF Fixed
    <2>5. CASE opts["fp"] # ""
      BY <2>3, <2>4, <2>5 DEF Authenticated
    <2>6. CASE opts["fp"] = ""
      BY <2>2, <2>3, <2>4, <2>6 DEF Authenticated
    <2> QED BY <2>5, <2>6
  <1> QED BY <1>1, OptionsInvariant, PTL
=============================================================================
