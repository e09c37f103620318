------------------------------- MODULE Access -------------------------------
(***************************************************************************)
(* Who may talk to the backend: the bindings of API_KEYS and the checks a  *)
(* configuration must pass before the server binds its socket              *)
(* (backend/app/config.py), and the verification of a presented key        *)
(* (backend/app/auth.py).  Pure operators.                                 *)
(*                                                                         *)
(* API_KEYS is the sequence of its entries after splitting and stripping:  *)
(* [collector, key], either of them Blank, the collector None when the     *)
(* entry has no `:'.  A JSON list of keys is one entry per key.            *)
(***************************************************************************)
EXTENDS Integers, Sequences

CONSTANTS
    None,
    Blank,          \* the empty string
    Placeholder     \* a key that still holds the text of the example file

\* Mutant of Shared: only neighbours are compared.
SharedWithNext(entries) ==
    \E i \in 1..(Len(entries) - 1) :
        entries[i].key = entries[i + 1].key /\ entries[i].collector # entries[i + 1].collector

\* One key bound to two identities.
Shared(entries) ==
    \E i, j \in DOMAIN entries :
        entries[i].key = entries[j].key /\ entries[i].collector # entries[j].collector

\* api_key_bindings: raises on a bare key, an empty part or a shared key.
Malformed(entries) ==
    \/ \E i \in DOMAIN entries :
           \/ entries[i].collector \in {None, Blank}
           \/ entries[i].key = Blank
    \/ Shared(entries)

\* startup_problems; a configuration is
\* [keys, logLevelKnown, heartbeatInterval, offlineTimeout].
Problems(config) ==
    {p \in {"keys invalid", "keys missing", "placeholder", "log level", "timeout"} :
        CASE p = "keys invalid" -> Malformed(config.keys)
          [] p = "keys missing" -> config.keys = <<>>
          [] p = "placeholder"  -> /\ ~ Malformed(config.keys)
                                   /\ \E i \in DOMAIN config.keys :
                                          config.keys[i].key = Placeholder
          [] p = "log level"    -> ~ config.logLevelKnown
          [] p = "timeout"      -> config.offlineTimeout <= config.heartbeatInterval}

\* load_settings returns, and the server starts, only without problems.
Serves(config) == Problems(config) = {}

\* The identity a credential is bound to, or None.  Every binding is compared;
\* the last match counts.
Authenticate(config, credential) ==
    LET match == {i \in DOMAIN config.keys : config.keys[i].key = credential}
    IN  IF credential \in {None, Blank} \/ match = {} THEN None
        ELSE config.keys[CHOOSE i \in match : \A j \in match : j <= i].collector
=============================================================================
