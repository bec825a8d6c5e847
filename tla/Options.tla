------------------------------ MODULE Options -------------------------------
(***************************************************************************)
(* From main() to the connection: the options are taken from the command   *)
(* line, the run control file and defaults, in an order that decides which *)
(* of them wins and on which values the derived ones are based; then they  *)
(* decide how the server's certificate is verified.                        *)
(*                                                                         *)
(* A command line, and the section of an account in the run control file,  *)
(* is a function from the names that are given to their values.  Names are *)
(* those of the command line (the key of fp is called fingerprint).        *)
(***************************************************************************)
EXTENDS Naturals, Sequences, TLC

CONSTANTS
    CommandLines,    \* what the user may type ...
    RcFiles,         \* ... or write into the file: account -> section
    Chains           \* certificates a server may present, in the order in
                     \* which OpenSSL has them verified, its own one last

\* namespace KEY.
Required == {"username", "password"}
Keys == Required \cup
    {"ip", "bind", "lport", "host", "port", "ssl", "fp", "cipher",
     "cipher_preset", "ca", "ca_path", "cert_host", "tls1", "delete", "mailbox",
     "maildir", "journal"}
Comment == "_comment"

\* What load() takes for a key that is not there.
KeyDefault ==
    [ip |-> 4, bind |-> "", lport |-> 0, host |-> "", port |-> "", ssl |-> TRUE,
     fp |-> "", cipher |-> "", cipher_preset |-> 1, ca |-> "", ca_path |-> "",
     cert_host |-> "", tls1 |-> TRUE, delete |-> FALSE, mailbox |-> "INBOX",
     maildir |-> "", journal |-> ""]

\* The options of add_*_opts() that have a default_value().
OptionDefault ==
    [trace |-> "", log |-> "", verbose |-> 4, log_v |-> 0, sim_error |-> 0,
     account |-> "default", config |-> "", gwait |-> 100, journal |-> "",
     header |-> FALSE, list |-> FALSE, list_mailbox |-> "%"]

OptionNames == (Keys \ Required) \cup DOMAIN OptionDefault
                   \cup {"help", "list_reference"}

\* Values from two places; those of f win.
f ++ g == [x \in DOMAIN f \cup DOMAIN g |-> IF x \in DOMAIN f THEN f[x] ELSE g[x]]

JournalOf(account) == "~/.config/imapdl/" \o account \o ".journal"

\* A server presents at least its own certificate, and a path is not empty.
ASSUME OptionsAssumption ==
    /\ Chains \subseteq Seq([fp : STRING, preverified : BOOLEAN, host : STRING]) \ {<<>>}
    /\ \A a \in CommandLines : JournalOf((a ++ OptionDefault)["account"]) # ""

VARIABLES
    phase,       \* how far the start has got
    argv,        \* the command line
    rcExists,    \* the run control file ...
    rc,          \* ... and its contents
    opts,        \* the members of Options that have a value
    chain,       \* the certificates the server will present
    pos,         \* Verification::pos_
    result       \* Verification::result_

vars == <<phase, argv, rcExists, rc, opts, chain, pos, result>>

Ended == {"helped", "rc_written", "failed", "connected"}
Phases == Ended \cup {"idle", "stored", "loaded", "notified", "fixed", "verified",
                      "handshake"}

\* No process, and thus no memory of it.
Idle ==
    /\ phase = "idle" /\ argv = <<>> /\ opts = <<>>
    /\ chain = <<>> /\ pos = 0 /\ result = FALSE

Init == Idle /\ rcExists \in BOOLEAN /\ rc \in RcFiles

-----------------------------------------------------------------------------
\* The example accounts of default_rc_file, and what is special about each.
DefaultRc ==
    LET user == [username |-> "juser", password |-> "secret"]
        example == user @@ [host |-> "example", maildir |-> "~/m", delete |-> TRUE]
    IN "default" :> user
       @@ "2nd_example_account" :> (example @@ [fp |-> "BAFF", cipher_preset |-> 3])
       @@ "3rd_example_account" :> (example @@ [ca |-> "path", tls1 |-> FALSE])
       @@ "4th_example_account" :> (example @@ [ca_path |-> "path"])

\* The user writes the file, or starts the program; the program has ended.
Edit ==
    /\ phase = "idle"
    /\ rcExists' = TRUE /\ rc' \in RcFiles
    /\ UNCHANGED <<phase, argv, opts, chain, pos, result>>

Begin ==
    /\ phase = "idle" /\ phase' = "stored"
    /\ argv' \in CommandLines
    /\ UNCHANGED <<rcExists, rc, opts, chain, pos, result>>

End ==
    /\ phase \in Ended
    /\ phase' = "idle" /\ argv' = <<>> /\ opts' = <<>>
    /\ chain' = <<>> /\ pos' = 0 /\ result' = FALSE
    /\ UNCHANGED <<rcExists, rc>>

\* po::store(): an unknown option is an error; help is printed.
store ==
    /\ phase = "stored"
    /\ \/ ~(DOMAIN argv \subseteq OptionNames) /\ phase' = "failed"
       \/ /\ DOMAIN argv \subseteq OptionNames /\ "help" \in DOMAIN argv
          /\ phase' = "helped"
    /\ UNCHANGED <<argv, rcExists, rc, opts, chain, pos, result>>

Stored ==
    phase = "stored" /\ DOMAIN argv \subseteq OptionNames \ {"help"}

\* check_configfile(): a missing file is written at the default place; one that
\* the user names is not.
check_configfile ==
    /\ Stored /\ ~rcExists
    /\ IF (argv ++ OptionDefault)["config"] = ""
       THEN phase' = "rc_written" /\ rcExists' = TRUE /\ rc' = DefaultRc
       ELSE phase' = "failed" /\ UNCHANGED <<rcExists, rc>>
    /\ UNCHANGED <<argv, opts, chain, pos, result>>

\* load(): get_child(), check_keys() and get() throw.
load ==
    /\ Stored /\ rcExists
    /\ LET account == (argv ++ OptionDefault)["account"]
       IN IF /\ account \in DOMAIN rc
             /\ DOMAIN rc[account] \subseteq Keys \cup {Comment}
             /\ Required \subseteq DOMAIN rc[account]
          THEN /\ phase' = "loaded"
               /\ opts' = [k \in Keys |-> (rc[account] ++ KeyDefault)[k]]
          ELSE phase' = "failed" /\ UNCHANGED opts
    /\ UNCHANGED <<argv, rcExists, rc, chain, pos, result>>

\* Mutant: what the file has is kept.
notify_keeps ==
    /\ phase = "loaded" /\ phase' = "notified"
    /\ opts' = opts ++ argv ++ OptionDefault
    /\ UNCHANGED <<argv, rcExists, rc, chain, pos, result>>

\* po::notify(): the members are set to what is on the command line and to the
\* default_value() of what is not.
notify ==
    /\ phase = "loaded" /\ phase' = "notified"
    /\ opts' = argv ++ OptionDefault ++ opts
    /\ UNCHANGED <<argv, rcExists, rc, chain, pos, result>>

\* "~/" is replaced by $HOME.
InHome(m) == IF m = "~/m" THEN "/home/juser/m" ELSE m
CipherOf == <<"forward secrecy", "TLSv1.2", "old">>

Task(o) == IF o["list"] THEN "LIST"
           ELSE IF o["header"] THEN "FETCH_HEADER" ELSE "DOWNLOAD"

\* Mutant: the host as it was when the file had been loaded.
CertHost_loaded(o) == IF o["cert_host"] = ""
                      THEN (rc[o["account"]] ++ KeyDefault)["host"]
                      ELSE o["cert_host"]

CertHost(o) == IF o["cert_host"] = "" THEN o["host"] ELSE o["cert_host"]

\* The values that follow from others.
Derived(o) ==
    [maildir |-> InHome(o["maildir"]),
     cert_host |-> CertHost(o),
     cipher |-> IF o["cipher"] = "" THEN CipherOf[o["cipher_preset"]] ELSE o["cipher"],
     port |-> IF o["port"] = "" THEN IF o["ssl"] THEN "imaps" ELSE "imap" ELSE o["port"],
     log_v |-> IF o["log_v"] = 0 THEN o["verbose"] ELSE o["log_v"],
     journal |-> IF o["journal"] = "" THEN JournalOf(o["account"]) ELSE o["journal"],
     task |-> Task(o)] ++ o

Fixable(o) ==
    /\ o["cipher"] = "" => o["cipher_preset"] \in DOMAIN CipherOf
    /\ o["ip"] \in {4, 6}

fix ==
    /\ phase = "notified"
    /\ IF Fixable(opts)
       THEN phase' = "fixed" /\ opts' = Derived(opts)
       ELSE phase' = "failed" /\ UNCHANGED opts
    /\ UNCHANGED <<argv, rcExists, rc, chain, pos, result>>

verify ==
    /\ phase = "fixed"
    /\ phase' = IF opts["host"] = "" \/ opts["maildir"] = ""
                THEN "failed" ELSE "verified"
    /\ UNCHANGED <<argv, rcExists, rc, opts, chain, pos, result>>
-----------------------------------------------------------------------------
\* main() chooses the type of the connection.  With TLS, Options::apply() loads
\* the CA file unless there is a fingerprint: no file at all is an error.
apply ==
    /\ phase = "verified"
    /\ phase' = IF ~opts["ssl"] THEN "connected"
                ELSE IF opts["fp"] = "" /\ opts["ca"] = "" THEN "failed"
                ELSE "handshake"
    /\ chain' \in IF phase' = "handshake" THEN Chains ELSE {chain}
    /\ UNCHANGED <<argv, rcExists, rc, opts, pos, result>>

\* rfc2818_verification (external): the name counts in the server's own
\* certificate, which comes last.
default_verification(cert, last) ==
    cert.preverified /\ (last => cert.host = opts["cert_host"])

\* Verification::operator(): a fingerprint decides by the first certificate.
Verdict(cert, last) ==
    IF result THEN TRUE
    ELSE IF opts["fp"] # "" /\ pos = 0 THEN cert.fp = opts["fp"]
    ELSE default_verification(cert, last)

\* The next certificate is verified; OpenSSL gives up at the first refusal.
verify_certificate ==
    /\ phase = "handshake"
    /\ LET last == pos + 1 = Len(chain)
           ok == Verdict(chain[pos + 1], last)
       IN /\ phase' = IF ~ok THEN "failed" ELSE IF last THEN "connected" ELSE "handshake"
          /\ result' = (result \/ (opts["fp"] # "" /\ pos = 0 /\ ok))
    /\ pos' = pos + 1
    /\ UNCHANGED <<argv, rcExists, rc, opts, chain>>

Next ==
    \/ Edit \/ Begin \/ End
    \/ store \/ check_configfile \/ load \/ notify \/ fix \/ verify
    \/ apply \/ verify_certificate

Spec == Init /\ [][Next]_vars
-----------------------------------------------------------------------------
\* The type invariant: the members that later phases use have their values.
TypeOK ==
    /\ phase \in Phases
    /\ phase # "idle" => argv \in CommandLines
    /\ rc \in RcFiles \cup {DefaultRc}
    /\ rcExists \in BOOLEAN /\ result \in BOOLEAN
    /\ pos \in 0..Len(chain)
    /\ phase = "loaded" => DOMAIN opts = Keys
    /\ phase \in {"notified", "fixed", "verified", "handshake", "connected"} =>
           Keys \cup DOMAIN OptionDefault \subseteq DOMAIN opts
    /\ phase \in {"fixed", "verified", "handshake", "connected"} =>
           opts["task"] \in {"DOWNLOAD", "FETCH_HEADER", "LIST"}

\* What the user wants: the command line wins, then the account's section, then
\* the defaults.
Section == rc[(argv ++ OptionDefault)["account"]]
Wanted(k) == (argv ++ Section ++ OptionDefault ++ KeyDefault)[k]

Settled == phase \in {"verified", "handshake", "connected"}

\* The options that fix() derives from others.
DerivedKeys == {"maildir", "cert_host", "cipher", "port", "journal"}
WantedHost == IF Wanted("cert_host") = "" THEN Wanted("host") ELSE Wanted("cert_host")

\* The program runs with the options the user wants, from whichever place they
\* come: among them whether messages are deleted, in which mailbox, and over TLS.
\* Derived options follow what has won, not what was read first.  Whoever gets past
\* the start has a host to connect to, a maildir to deliver to, a service and
\* ciphers: Copy::Client and the network clients rely on it.  The one option for
\* which this is not so is the journal, see JournalAsWanted.
EffectiveOptions ==
    /\ TypeOK
    /\ Settled =>
          /\ \A k \in Keys \ DerivedKeys : opts[k] = Wanted(k)
          /\ opts["maildir"] = InHome(Wanted("maildir"))
          /\ opts["cert_host"] = WantedHost
          /\ opts["port"] = IF Wanted("port") # "" THEN Wanted("port")
                            ELSE IF Wanted("ssl") THEN "imaps" ELSE "imap"
          /\ opts["cipher"] = IF Wanted("cipher") # "" THEN Wanted("cipher")
                              ELSE CipherOf[Wanted("cipher_preset")]
          /\ opts["task"] = IF Wanted("list") THEN "LIST"
                            ELSE IF Wanted("header") THEN "FETCH_HEADER"
                            ELSE "DOWNLOAD"
          /\ "" \notin {opts[k] : k \in DerivedKeys \cup {"host"}}
          /\ opts["ip"] \in {4, 6}

\* The journal is the one the user names on the command line or else in the file,
\* where load() looks for it, or else the one of the account.  This is not so: the
\* option's default_value() makes notify() replace what load() has read.
JournalAsWanted ==
    Settled => opts["journal"] = IF Wanted("journal") # "" THEN Wanted("journal")
                                 ELSE JournalOf(Wanted("account"))

\* A TLS connection is only used if the server's own certificate has the wanted
\* fingerprint, or else the certificates are all valid and its own one is for the
\* wanted host.  This is not so of a fingerprint and a longer chain: the one compared
\* is that of the certificate verified first, the top of the chain.
Authenticated ==
    phase = "connected" /\ opts["ssl"] =>
        LET own == chain[Len(chain)] IN
        IF Wanted("fp") # "" THEN own.fp = Wanted("fp")
        ELSE /\ \A i \in DOMAIN chain : chain[i].preverified
             /\ own.host = WantedHost

\* It is so when no fingerprint is wanted, and when the server's certificate comes
\* alone: Verification goes by the options that have won, looks at every
\* certificate, and keeps its verdict on the fingerprint.
AuthenticatedIfAlone ==
    Settled /\ (Wanted("fp") = "" \/ Len(chain) = 1) => Authenticated
=============================================================================
