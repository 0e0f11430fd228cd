----------------------------- MODULE Credentials -----------------------------
(***************************************************************************)
(* The stored GitHub credential: litci auth writes it, every command that  *)
(* needs a token loads it and, when it has expired, exchanges its refresh  *)
(* token, which GitHub (external) takes once, and stores the new pair.     *)
(* The kernel keyring is tried before ~/.litci/auth.json, at every load    *)
(* and at every save; no lock is held between a load and the save after    *)
(* it.  A token is its place in the sequence of tokens GitHub issued.      *)
(***************************************************************************)
EXTENDS Integers, Sequences, FiniteSets

CONSTANTS
  Callers,      \* commands that call current_token
  Logins,       \* litci auth processes
  Device,       \* those that use the device flow; the others paste a token
  Life, Margin, \* life of an access token, and SAFETY_MARGIN_SECS
  RefreshLife,
  MaxTime,      \* (bound)
  Codes,        \* device codes: [interval, expires]
  SlowStep      \* what slow_down adds to the interval

CredAssumption ==
  /\ Callers \cap Logins = {}
  /\ Life \in Nat /\ RefreshLife \in Nat /\ MaxTime \in Nat /\ Margin \in Nat /\ SlowStep \in Nat
  /\ Codes \subseteq [interval : Nat, expires : Nat]

VARIABLES
  now,
  tokens,    \* issued tokens: [until, refreshUntil, spent, login]
  ringWorks, \* the kernel has a persistent keyring
  keyring,   \* token in the keyring, or None
  file,      \* token in auth.json, None, or Torn
  proc,      \* processes: where they are, and their locals
  session,   \* the login that ended last (history)
  causes     \* what happened that may cost the session (history)

credVars == <<now, tokens, ringWorks, keyring, file, proc, session, causes>>

None == 0
Torn == -1
Never == MaxTime + Life + RefreshLife
NotPolling == [interval |-> 0, want |-> 0, clock |-> 0, expires |-> 0, rude |-> FALSE]
AuthIdle == [at |-> "idle", token |-> None, result |-> None, why |-> "", began |-> None, poll |-> NotPolling]
AuthEnded == {"done", "failed", "dead"}
Active == {x \in DOMAIN proc : proc[x].at \notin AuthEnded \cup {"idle"}}

CredInit ==
  /\ now = 0 /\ tokens = <<>>
  /\ ringWorks \in BOOLEAN
  /\ keyring = None /\ file = None
  /\ proc = [x \in Callers \cup Logins |-> AuthIdle]
  /\ session = None /\ causes = {}

Proceed(x, locals) == proc' = [proc EXCEPT ![x] = locals]
Overlapping == IF Active = {} THEN {} ELSE {"overlap"}
\* is_expired, with its margin.
IsExpired(until) == now + Margin >= until
Issue(until, refreshUntil, login) ==
  [until |-> until, refreshUntil |-> refreshUntil, spent |-> FALSE, login |-> login]

\* --------------------------------------------------------- current_token
\* What is done with what was loaded.
Loaded(x, t) ==
  IF t \in {None, Torn} THEN [proc[x] EXCEPT !.at = "done", !.why = "absent"]
  ELSE IF ~IsExpired(tokens[t].until) THEN [proc[x] EXCEPT !.at = "done", !.result = t]
  ELSE IF IsExpired(tokens[t].refreshUntil) THEN [proc[x] EXCEPT !.at = "done", !.why = "refresh expired"]
  ELSE [proc[x] EXCEPT !.at = "exchange", !.token = t]
\* load: the keyring, and then the file.
LoadFromKeyring(c) ==
  /\ proc[c].at = "idle" /\ c \in Callers
  /\ c = CHOOSE x \in Callers : proc[x].at = "idle"   \* they are interchangeable
  /\ LET begun == [proc[c] EXCEPT !.began = session]
     IN Proceed(c, IF ringWorks /\ keyring # None THEN [Loaded(c, keyring) EXCEPT !.began = session]
                  ELSE [begun EXCEPT !.at = "file"])
  /\ causes' = causes \cup Overlapping
  /\ UNCHANGED <<now, tokens, ringWorks, keyring, file, session>>
LoadFromFile(c) ==
  /\ proc[c].at = "file"
  /\ Proceed(c, Loaded(c, file))
  /\ UNCHANGED <<now, tokens, ringWorks, keyring, file, session, causes>>

\* refresh_access_token: the pair is exchanged; or GitHub is not reached; or
\* its answer is lost, too long or not understood.
RefreshAccessToken(c) ==
  /\ proc[c].at = "exchange"
  /\ LET old == tokens[proc[c].token]
         issued == Append([tokens EXCEPT ![proc[c].token].spent = TRUE], Issue(now + Life, now + RefreshLife, old.login))
     IN IF old.spent
          THEN Proceed(c, [proc[c] EXCEPT !.at = "done", !.token = None, !.why = "spent"]) /\ UNCHANGED <<tokens, causes>>
          ELSE \/ /\ tokens' = issued /\ UNCHANGED causes
                  /\ Proceed(c, [proc[c] EXCEPT !.at = "save", !.token = Len(issued)])
               \/ /\ tokens' = issued /\ causes' = causes \cup {"lost"}
                  /\ Proceed(c, [proc[c] EXCEPT !.at = "done", !.token = None, !.why = "lost"])
               \/ /\ Proceed(c, [proc[c] EXCEPT !.at = "done", !.token = None, !.why = "network"])
                  /\ UNCHANGED <<tokens, causes>>
  /\ UNCHANGED <<now, ringWorks, keyring, file, session>>

\* ------------------------------------------------------------------ save
\* A caller hands the new token out whether or not it was saved.
Saved(x) == IF x \in Callers THEN [proc[x] EXCEPT !.at = "done", !.result = proc[x].token, !.token = None]
            ELSE [proc[x] EXCEPT !.at = "done", !.token = None]
NewSession(x) == IF x \in Logins THEN tokens[proc[x].token].login ELSE session
\* add_key, which quota may refuse; what the keyring held stays there.
SaveToKeyring(x) ==
  /\ proc[x].at = "save"
  /\ \/ /\ ringWorks /\ keyring' = proc[x].token
        /\ Proceed(x, Saved(x)) /\ session' = NewSession(x) /\ UNCHANGED causes
     \/ /\ Proceed(x, [proc[x] EXCEPT !.at = "truncate"])
        /\ causes' = IF x \in Callers /\ keyring # None THEN causes \cup {"shadowed"} ELSE causes
        /\ UNCHANGED <<keyring, session>>
  /\ UNCHANGED <<now, tokens, ringWorks, file>>
\* save_to_file: O_TRUNC, and then the bytes.
Truncate(x) ==
  /\ proc[x].at = "truncate"
  /\ file' = Torn
  /\ Proceed(x, [proc[x] EXCEPT !.at = "write"])
  /\ UNCHANGED <<now, tokens, ringWorks, keyring, session, causes>>
WriteFile(x) ==
  /\ proc[x].at = "write"
  /\ \/ file' = proc[x].token /\ UNCHANGED causes
     \/ file # Torn /\ file' = Torn /\ causes' = causes \cup {"torn"}
  /\ Proceed(x, Saved(x)) /\ session' = NewSession(x)
  /\ UNCHANGED <<now, tokens, ringWorks, keyring>>

\* ------------------------------------------------------------ litci auth
\* request_device_code; a zero interval is raised to a second.
RequestDeviceCode(l, code) ==
  /\ proc[l].at = "idle" /\ l \in Logins \cap Device
  /\ LET interval == IF code.interval > 1 THEN code.interval ELSE 1
     IN Proceed(l, [proc[l] EXCEPT !.at = "poll", !.poll = [NotPolling EXCEPT !.interval = interval, !.want = code.interval,
                                                                          !.expires = code.expires]])
  /\ causes' = causes \cup Overlapping
  /\ UNCHANGED <<now, tokens, ringWorks, keyring, file, session>>
\* poll_until_authorized: sleep, look at the deadline, ask.  GitHub answers
\* slow_down to whoever asks too soon, and wants more time from then on.
Answers(x) == IF x.interval < x.want THEN {"slow_down"} ELSE {"success", "pending", "slow_down", "refused"}
MutSlower(x) == [x EXCEPT !.want = @ + SlowStep]   \* the interval stays as it was
Slower(x) == [x EXCEPT !.interval = @ + SlowStep, !.want = @ + SlowStep]
Poll(l) ==
  /\ proc[l].at = "poll"
  /\ LET x == [proc[l].poll EXCEPT !.clock = @ + proc[l].poll.interval, !.rude = @ \/ proc[l].poll.interval < proc[l].poll.want \/ proc[l].poll.interval < 1]
         over == [NotPolling EXCEPT !.rude = x.rude]
         device == Issue(now + Life, now + RefreshLife, Len(tokens) + 1)
     IN IF x.clock >= x.expires THEN Proceed(l, [proc[l] EXCEPT !.at = "failed", !.poll = [over EXCEPT !.rude = proc[l].poll.rude]]) /\ UNCHANGED tokens
        ELSE \E answer \in Answers(x) :
               /\ tokens' = IF answer = "success" THEN Append(tokens, device) ELSE tokens
               /\ Proceed(l, CASE answer = "success" -> [proc[l] EXCEPT !.at = "clear", !.token = Len(tokens) + 1, !.poll = over]
                              [] answer = "pending" -> [proc[l] EXCEPT !.poll = x]
                              [] answer = "slow_down" -> [proc[l] EXCEPT !.poll = Slower(x)]
                              [] answer = "refused" -> [proc[l] EXCEPT !.at = "failed", !.poll = over])
  /\ UNCHANGED <<now, ringWorks, keyring, file, session, causes>>
\* run_pat_flow and run_gh_flow: a token without a known end.
Paste(l) ==
  /\ proc[l].at = "idle" /\ l \in Logins \ Device
  /\ tokens' = Append(tokens, Issue(Never, Never, Len(tokens) + 1))
  /\ Proceed(l, [proc[l] EXCEPT !.at = "clear", !.token = Len(tokens) + 1])
  /\ causes' = causes \cup Overlapping
  /\ UNCHANGED <<now, ringWorks, keyring, file, session>>
MutClearKeyring(l) ==   \* the keyring is thought to be overwritten anyway
  /\ proc[l].at = "clear"
  /\ Proceed(l, [proc[l] EXCEPT !.at = "remove"])
  /\ UNCHANGED <<now, tokens, ringWorks, keyring, file, session, causes>>
\* store_and_report: clear, and then save.
ClearKeyring(l) ==
  /\ proc[l].at = "clear"
  /\ keyring' = None
  /\ Proceed(l, [proc[l] EXCEPT !.at = "remove"])
  /\ UNCHANGED <<now, tokens, ringWorks, file, session, causes>>
RemoveFile(l) ==
  /\ proc[l].at = "remove"
  /\ file' = None
  /\ Proceed(l, [proc[l] EXCEPT !.at = "save"])
  /\ UNCHANGED <<now, tokens, ringWorks, keyring, session, causes>>

\* ----------------------------------------------------------- environment
Tick ==
  /\ now < MaxTime /\ now' = now + 1
  /\ UNCHANGED <<tokens, ringWorks, keyring, file, proc, session, causes>>
CredKill(x) ==
  /\ x \in Active
  /\ Proceed(x, [AuthIdle EXCEPT !.at = "dead", !.poll = [NotPolling EXCEPT !.rude = proc[x].poll.rude]])
  /\ causes' = causes \cup {"killed"}
  /\ UNCHANGED <<now, tokens, ringWorks, keyring, file, session>>

CredNext ==
  \/ \E x \in Callers \cup Logins :
       \/ LoadFromKeyring(x) \/ LoadFromFile(x) \/ RefreshAccessToken(x)
       \/ SaveToKeyring(x) \/ Truncate(x) \/ WriteFile(x)
       \/ \E code \in Codes : RequestDeviceCode(x, code)
       \/ Poll(x) \/ Paste(x) \/ ClearKeyring(x) \/ RemoveFile(x)
       \/ CredKill(x)
  \/ Tick
CredSpec == CredInit /\ [][CredNext]_credVars

\* ------------------------------------------------------------ properties
\* What the next load will find.
Stored == IF ringWorks /\ keyring # None THEN keyring ELSE file
\* Once nobody is at work, and unless a process was killed, an answer of
\* GitHub lost, two writers met in one file or a refresh fell back to a file
\* the keyring shadows, what is stored can still be exchanged, however many
\* commands refresh it at once; without overlap it belongs to the last login
\* (current_token, store_and_report).
LoginLasts ==
  session # None /\ Active = {} /\ causes \subseteq {"overlap"} =>
    Stored > 0 /\ ~tokens[Stored].spent /\ (causes = {} => tokens[Stored].login = session)
\* A command that ran alone gets the token of the login it began with, unless
\* the network or the refresh token's age stood in the way (current_token).
CommandsAreServed ==
  \A c \in Callers :
    proc[c].at = "done" /\ proc[c].began # None /\ causes = {} =>
      \/ proc[c].result # None /\ tokens[proc[c].result].login = proc[c].began
      \/ proc[c].why \in {"network", "refresh expired"}
\* GitHub is never asked sooner than it wanted, nor in a loop without sleep
\* (poll_until_authorized).
PollingIsPolite == \A l \in Logins : ~proc[l].poll.rude
\* A login lasts until it has a reason to end, commands get its token, and
\* GitHub is polled as slowly as it wants.
SessionSurvives == LoginLasts /\ CommandsAreServed /\ PollingIsPolite
=============================================================================
