----------------------------- MODULE SslTrust -----------------------------
(***************************************************************************)
(* What main.c does to the OpenSSL that is linked into the game: the hook  *)
(* on SSL_CTX_new that gives each context the console's trusted roots, and *)
(* the random method and the provider installed before the network starts. *)
(* Threads of the game may create contexts from its constructors on, while *)
(* main still prepares.                                                    *)
(***************************************************************************)
EXTENDS Naturals, FiniteSets

CONSTANTS
  NumCerts,      \* certificates of the console's store
  Statuses,      \* values of SslTrustedCertStatus
  Workers,       \* threads that create contexts
  MaxContexts    \* bound: contexts

VARIABLES
  status,        \* status of each certificate
  usable,        \* the certificates that OpenSSL usable and adds
  hook,          \* SSL_CTX_new is hooked
  configLoads,   \* OpenSSL may still look for a configuration file
  rand,          \* "stock" or "csrng"
  csrngReady,    \* compat_csrng_ready
  csrngOpen,     \* the csrng service is open
  provider,      \* the default provider is loaded
  count,         \* compat_horizon_ca_count: certificates in the buffer
  ready,         \* compat_horizon_ca_ready
  spc,           \* where main is
  wpc,           \* what a worker is doing
  next,          \* the certificate it looks at
  begun,         \* where main was when its context began
  roots,         \* roots of that context
  contexts       \* the contexts made

sslVars == <<status, usable, hook, configLoads, rand, csrngReady, csrngOpen, provider,
             count, ready, spc, wpc, next, begun, roots,
             contexts>>

SslConstants == "trusted" \in Statuses /\ NumCerts \in Nat /\ MaxContexts \in Nat

Certs == 1 .. NumCerts

Trusted == {c \in Certs : status[c] = "trusted"}

Init ==
  /\ status \in [Certs -> Statuses]
  /\ usable \in SUBSET Certs
  /\ hook = FALSE
  /\ configLoads = TRUE
  /\ rand = "stock"
  /\ csrngReady = FALSE
  /\ csrngOpen \in BOOLEAN
  /\ provider = FALSE
  /\ count = 0
  /\ ready = FALSE
  /\ spc = "hook"
  /\ wpc = [w \in Workers |-> "idle"]
  /\ next = [w \in Workers |-> 1]
  /\ begun = [w \in Workers |-> "hook"]
  /\ roots = [w \in Workers |-> {}]
  /\ contexts = {}

-----------------------------------------------------------------------------
(* main *)

mainVars == <<hook, configLoads, rand, csrngReady, provider, count, ready, spc>>
workVars == <<wpc, next, begun, roots, contexts>>

(* install_ssl_ctx_trust_hook, before the image is mapped: all symbols and  *)
(* the exact code are needed.                                               *)
InstallHook(complete, recognised) ==
  /\ spc = "hook"
  /\ hook' = (complete /\ recognised)
  /\ spc' = "construct"
  /\ UNCHANGED <<status, usable, configLoads, rand, csrngReady, csrngOpen, provider,
                 count, ready, workVars>>

(* disable_openssl_config_before_pvz2_constructors *)
NoConfig(found) ==
  /\ spc = "construct"
  /\ configLoads' = ~ found
  /\ spc' = "rand"
  /\ UNCHANGED <<status, usable, hook, rand, csrngReady, csrngOpen, provider, count, ready,
                 workVars>>

(* install_embedded_openssl_rand_method: csrng is tried, declared ready, and *)
(* taken back when OpenSSL refuses the method.                               *)
TryCsrng(found) ==
  /\ spc = "rand"
  /\ IF found /\ csrngOpen
       THEN csrngReady' = TRUE /\ spc' = "setrand"
       ELSE spc' = "provider" /\ UNCHANGED csrngReady
  /\ UNCHANGED <<status, usable, hook, configLoads, rand, csrngOpen, provider, count, ready,
                 workVars>>

SetRand(accepted) ==
  /\ spc = "setrand"
  /\ rand' = IF accepted THEN "csrng" ELSE rand
  /\ csrngReady' = accepted
  /\ spc' = "provider"
  /\ UNCHANGED <<status, usable, hook, configLoads, csrngOpen, provider, count, ready,
                 workVars>>

(* activate_embedded_openssl_default_provider *)
LoadProvider(loaded) ==
  /\ spc = "provider"
  /\ provider' = loaded
  /\ spc' = "inventory"
  /\ UNCHANGED <<status, usable, hook, configLoads, rand, csrngReady, csrngOpen, count,
                 ready, workVars>>

(* prepare_horizon_ca_trust: the inventory is read in one piece or not at   *)
(* all, and published with the flag last.                                   *)
ReadInventory(fetched) ==
  /\ spc = "inventory"
  /\ IF fetched /\ NumCerts > 0
       THEN count' = NumCerts /\ spc' = "publish"
       ELSE UNCHANGED count /\ spc' = "network"
  /\ UNCHANGED <<status, usable, hook, configLoads, rand, csrngReady, csrngOpen, provider,
                 ready, workVars>>

Publish == Trusted # {}

SetReady ==
  /\ spc = "publish"
  /\ ready' = Publish
  /\ spc' = "network"
  /\ UNCHANGED <<status, usable, hook, configLoads, rand, csrngReady, csrngOpen, provider,
                 count, workVars>>

(* surface_created: the stock network client is restored. *)
StartNetwork ==
  /\ spc = "network"
  /\ spc' = "play"
  /\ UNCHANGED <<status, usable, hook, configLoads, rand, csrngReady, csrngOpen, provider,
                 count, ready, workVars>>

(* The frame loop has ended; csrngExit while workers may still run. *)
Exit ==
  /\ spc = "play"
  /\ csrngOpen' = FALSE
  /\ spc' = "exit"
  /\ UNCHANGED <<status, usable, hook, configLoads, rand, csrngReady, provider, count,
                 ready, workVars>>

-----------------------------------------------------------------------------
(* ssl_ctx_new_with_horizon_trust *)

(* Code of the game runs from its constructors on. *)
Running == spc \notin {"hook", "construct"}

BeginContext(w) ==
  /\ Running
  /\ wpc[w] = "idle" /\ Cardinality(contexts) < MaxContexts
  /\ wpc' = [wpc EXCEPT ![w] = IF hook /\ ready THEN "adding" ELSE "made"]
  /\ begun' = [begun EXCEPT ![w] = spc]
  /\ next' = [next EXCEPT ![w] = 1]
  /\ roots' = [roots EXCEPT ![w] = {}]
  /\ UNCHANGED <<status, usable, csrngOpen, contexts, mainVars>>

(* Roots taken whatever the console says of them. *)
Admits_All(c) == c \in usable

(* Only a certificate that is enabled and trusted is decoded and added. *)
Admits(c) == status[c] = "trusted" /\ c \in usable

AddRoot(w) ==
  /\ wpc[w] = "adding" /\ next[w] <= count
  /\ roots' = [roots EXCEPT ![w] = IF Admits(next[w]) THEN @ \cup {next[w]} ELSE @]
  /\ next' = [next EXCEPT ![w] = @ + 1]
  /\ UNCHANGED <<status, usable, csrngOpen, wpc, begun, contexts, mainVars>>

EndContext(w) ==
  /\ wpc[w] = "made" \/ (wpc[w] = "adding" /\ next[w] > count)
  /\ wpc' = [wpc EXCEPT ![w] = "idle"]
  /\ contexts' = contexts \cup {[begun |-> begun[w], roots |-> roots[w]]}
  /\ UNCHANGED <<status, usable, csrngOpen, next, begun, roots, mainVars>>

Next ==
  \/ \E yes, too \in BOOLEAN : InstallHook(yes, too)
  \/ \E yes \in BOOLEAN :
       NoConfig(yes) \/ TryCsrng(yes) \/ SetRand(yes) \/ LoadProvider(yes)
       \/ ReadInventory(yes)
  \/ SetReady \/ StartNetwork \/ Exit
  \/ \E w \in Workers : BeginContext(w) \/ AddRoot(w) \/ EndContext(w)

Spec == Init /\ [][Next]_sslVars

-----------------------------------------------------------------------------
(* The comment above the bridge: only certificates the console trusts are   *)
(* admitted.  And a context has all of the usable ones or, from before they *)
(* were read, none; one that is made once the network runs has them all, if *)
(* the hook is in and the console gave any.                                 *)
AllOfThem == Trusted \cap usable
RootsAreTrusted ==
  \A c \in contexts :
    /\ c.roots \in {{}, AllOfThem}
    /\ c.begun \in {"play", "exit"} /\ hook /\ ready => c.roots = AllOfThem

(* csrng answers for OpenSSL's random method only while it is the method. *)
RandomIsHonest ==
  spc \notin {"setrand"} => (csrngReady <=> rand = "csrng")

TrustSound == RootsAreTrusted /\ RandomIsHonest

-----------------------------------------------------------------------------
(* The inductive invariant *)

TypeOK ==
  /\ status \in [Certs -> Statuses] /\ usable \subseteq Certs
  /\ hook \in BOOLEAN /\ ready \in BOOLEAN /\ csrngReady \in BOOLEAN
  /\ rand \in {"stock", "csrng"}
  /\ count \in {0, NumCerts}
  /\ spc \in {"hook", "construct", "rand", "setrand", "provider", "inventory", "publish",
              "network", "play", "exit"}
  /\ wpc \in [Workers -> {"idle", "adding", "made"}]
  /\ next \in [Workers -> Nat \ {0}]
  /\ begun \in [Workers -> {"hook", "rand", "setrand", "provider", "inventory", "publish",
                            "network", "play", "exit"}]
  /\ roots \in [Workers -> SUBSET Certs]

(* main goes through its preparations once and in order. *)
MainInOrder ==
  /\ spc \in {"hook", "construct", "rand", "setrand"} => rand = "stock"
  /\ spc \in {"hook", "construct", "rand"} => ~csrngReady
  /\ spc = "publish" \/ ready => count = NumCerts
  /\ ready => spc \in {"network", "play", "exit"}

(* A context under way has the roots of the certificates it has passed, or  *)
(* was begun before there were any.                                         *)
Passed(w) == {c \in AllOfThem : c < next[w]}
UnderWay(w) ==
  /\ wpc[w] # "idle" => Running /\ (begun[w] \in {"play", "exit"} => spc \in {"play", "exit"})
  /\ wpc[w] = "adding" => hook /\ ready /\ roots[w] = Passed(w)
  /\ wpc[w] = "made" =>
       roots[w] = {} /\ (begun[w] \in {"play", "exit"} => ~ (hook /\ ready))

Made == \A c \in contexts : Running /\ (c.begun \in {"play", "exit"} => spc \in {"play", "exit"})

IInv ==
  /\ TypeOK /\ MainInOrder /\ TrustSound /\ Made
  /\ \A w \in Workers : UnderWay(w)
=============================================================================
