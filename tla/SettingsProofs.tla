---------------------------- MODULE SettingsProofs ----------------------------
(***************************************************************************)
(* What the configuration file and its copies say, for any number of       *)
(* requests, flags and sections.                                           *)
(***************************************************************************)
EXTENDS Settings, TLAPS

Busy(r) == request[r].at # "idle"

\* A request or setup that is not at work has left nothing behind.
Still ==
    /\ \A r \in Request : ~Busy(r) <=> request[r] = Idle
    /\ setup.at = "idle" <=> setup = NoSetup
    /\ ~up => \A r \in Request : ~Busy(r)
    /\ ~up => ~stale /\ ~mixed

\* What r will write when nothing comes between: the flags as expected, but
\* for those it names, and once it has read them the other sections.
Faithful(r) ==
    LET c == request[r].config IN
    /\ request[r].at \in {"load", "truncate", "write"} =>
          \A f \in Flag \ request[r].named : c.shown[f] = expected.shown[f]
    /\ request[r].at \in {"truncate", "write"} => c.rest = expected.rest
    /\ request[r].at \in {"load", "truncate", "write", "tell"} => shared = expected.shown
    /\ request[r].at = "share" => c.shown = expected.shown

\* Requests and setup, as long as no two of them overlap: what each is about
\* to write, and what the file says.
Alone ==
    /\ \A r, s \in Request : Busy(r) /\ Busy(s) => r = s
    /\ \A r \in Request : Busy(r) => setup = NoSetup /\ ~stale
    /\ \A r \in Request : Faithful(r)
    /\ up /\ ~stale /\ (\A r \in Request : ~Busy(r)) => shared = expected.shown
    /\ setup.at = "asking" => file # Torn /\ setup.config = expected
    /\ setup.at \in {"truncate", "write"} =>
          \A f \in Flag \ Asked : setup.config.shown[f] = expected.shown[f]
    /\ file # Torn => Loaded = expected

\* One request at a time, whatever setup does meanwhile: what it carries from
\* the file to the daemon's copy and on to the manager's.
OneByOne ==
    /\ \A r, s \in Request : Busy(r) /\ Busy(s) => r = s
    /\ (\A r \in Request : request[r].at \notin {"share", "tell"}) =>
          shared = visible /\ (stale \/ file = Torn \/ shared = Loaded.shown)
    /\ \A r \in Request :
          LET shown == request[r].config.shown IN
          /\ request[r].at = "write" => stale \/ file = Torn
          /\ request[r].at \in {"share", "tell"} => stale \/ file = Torn \/ shown = Loaded.shown
          /\ request[r].at = "tell" => shared = shown

IInv ==
    /\ TypeOK /\ Still
    /\ ~lost => Alone
    /\ up /\ ~mixed => OneByOne

-----------------------------------------------------------------------------
(* Helpers *)

LEMMA Shapes ==
    /\ Default \in Config /\ Idle.at = "idle" /\ Idle.config = Default /\ Idle.named = {}
    /\ NoSetup.at = "idle" /\ NoSetup.config = Default
    /\ Idle \in [at : Point \cup {"idle"}, config : Config, named : SUBSET Flag]
    /\ NoSetup \in [at : {"idle", "asking", "truncate", "write"}, config : Config]
    /\ \A c \in Config : c # NoFile /\ c # Torn /\ c.shown \in Shown /\ c.rest \in Rest
BY SettingsAssumption DEF Default, Config, Shown, Idle, NoSetup, Point

\* A file that is not torn has contents.
LEMMA LoadedType ==
    ASSUME TypeOK, file # Torn
    PROVE  Loaded \in Config
BY Shapes DEF TypeOK, Loaded

LEMMA InitInv == Init => IInv
<1> SUFFICES ASSUME Init PROVE IInv
  OBVIOUS
<1>1. file \in Config \cup {NoFile} /\ Loaded \in Config
  BY Shapes DEF Init, Loaded, Config
<1>2. TypeOK
  BY <1>1, Shapes DEF Init, TypeOK
<1>3. Still
  BY Shapes DEF Init, Still, Busy
<1>4. Loaded = expected /\ \A r \in Request : request[r].at = "idle"
  BY Shapes DEF Init
<1>5. Alone
  BY <1>4, Shapes DEF Init, Alone, Faithful, Busy
<1> QED
  BY <1>2, <1>3, <1>5 DEF Init, IInv

-----------------------------------------------------------------------------
(* The daemon *)

LEMMA StartInv ==
    ASSUME IInv, Start
    PROVE  IInv'
<1>1. Loaded' = Loaded /\ Loaded \in Config
  BY LoadedType DEF Start, IInv, Loaded
<1>2. TypeOK'
  BY <1>1, Shapes DEF Start, IInv, TypeOK
<1>3. Still'
  BY DEF Start, IInv, Still, Busy
<1>4. ASSUME ~lost' PROVE Alone'
  <2>1. Alone /\ \A r \in Request : ~Busy(r)
    BY <1>4 DEF Start, IInv, Still
  <2>2. shared' = expected'.shown
    BY <2>1 DEF Start, Alone
  <2>3. \A r \in Request : Faithful(r)'
    BY <2>1, <2>2 DEF Start, Busy, Faithful
  <2> QED
    BY <2>1, <2>2, <2>3, <1>1 DEF Start, Alone, Busy
<1>5. OneByOne'
  <2>1. \A r \in Request : request'[r].at = "idle"
    BY DEF Start, IInv, Still, Busy
  <2> QED
    BY <2>1, <1>1 DEF Start, OneByOne, Busy
<1> QED
  BY <1>2, <1>3, <1>4, <1>5 DEF IInv

LEMMA EndInv ==
    ASSUME IInv, End
    PROVE  IInv'
<1>1. Loaded' = Loaded
  BY DEF End, Loaded
<1>2. \A r \in Request : request'[r] = Idle /\ request'[r].at = "idle"
  BY Shapes DEF End
<1>3. TypeOK'
  <2>1. /\ request' = [s \in Request |-> Idle] /\ shared' = Default.shown
        /\ visible' = Default.shown /\ stale' = FALSE /\ mixed' = FALSE /\ up' = FALSE
        /\ UNCHANGED <<file, setup, expected, lost>>
    BY DEF End
  <2>2. request' \in [Request -> [at : Point \cup {"idle"}, config : Config, named : SUBSET Flag]]
    BY <2>1, Shapes
  <2>3. {shared', visible'} \subseteq Shown
    BY <2>1, Shapes
  <2> QED
    BY <2>1, <2>2, <2>3 DEF IInv, TypeOK
<1>4. Still'
  BY <1>2 DEF End, IInv, Still, Busy
<1>5. ASSUME ~lost' PROVE Alone'
  BY <1>1, <1>2, <1>5 DEF End, IInv, Alone, Faithful, Busy
<1> QED
  BY <1>3, <1>4, <1>5 DEF IInv, End

-----------------------------------------------------------------------------
(* A settings request *)

LEMMA DecodeInv ==
    ASSUME IInv, NEW r \in Request, NEW patch \in Patch, Decode(r, patch)
    PROVE  IInv'
<1> DEFINE new == [at |-> "load", config |-> [Default EXCEPT !.shown = Patched(patch)],
                   named |-> DOMAIN patch]
<1>0. /\ up /\ request[r] = Idle /\ request' = [request EXCEPT ![r] = new]
      /\ mixed' = (mixed \/ Working # {})
      /\ lost' = (lost \/ Working # {} \/ setup # NoSetup \/ stale)
      /\ expected' = IF lost' THEN Default ELSE expected
      /\ UNCHANGED <<file, up, shared, visible, setup, stale>>
  BY DEF Decode, copies
<1>1. DOMAIN patch \subseteq Flag /\ patch \in [DOMAIN patch -> BOOLEAN]
  BY DEF Patch
<1>2. Patched(patch) \in Shown /\ \A f \in Flag \ DOMAIN patch : Patched(patch)[f] = shared[f]
  BY <1>1 DEF Patched, Shown, IInv, TypeOK
<1>3. /\ new \in [at : Point \cup {"idle"}, config : Config, named : SUBSET Flag]
      /\ new.at = "load" /\ new.config.shown = Patched(patch) /\ new.named = DOMAIN patch
      /\ new # Idle
  BY <1>1, <1>2, Shapes DEF Config, Point, Default
<1> HIDE DEF new
<1>4. request' \in [Request -> [at : Point \cup {"idle"}, config : Config, named : SUBSET Flag]]
      /\ request'[r] = new /\ \A s \in Request \ {r} : request'[s] = request[s]
  BY <1>0, <1>3 DEF IInv, TypeOK
<1>5. Loaded' = Loaded
  BY <1>0 DEF Loaded
<1>6. TypeOK'
  BY <1>0, <1>4, Shapes DEF IInv, TypeOK
<1>7. Still'
  BY <1>0, <1>3, <1>4 DEF IInv, Still, Busy
<1>8. Working = {} => \A s \in Request : request[s] = Idle /\ ~Busy(s)
  BY DEF Working, IInv, Still
<1>9. ASSUME ~lost' PROVE Alone'
  <2>1. Alone /\ Working = {} /\ setup = NoSetup /\ ~stale /\ expected' = expected
    BY <1>0, <1>9 DEF IInv
  <2>2. shared = expected.shown
    BY <2>1, <1>0, <1>8 DEF Alone
  <2>3. \A s \in Request : Busy(s)' => s = r
    BY <2>1, <1>4, <1>8 DEF Busy
  <2>4. \A s \in Request : Faithful(s)'
    <3>1. Faithful(r)'
      BY <2>1, <2>2, <1>0, <1>2, <1>3, <1>4 DEF Faithful
    <3>2. ASSUME NEW s \in Request \ {r} PROVE Faithful(s)'
      <4>1. request'[s].at = "idle"
        BY <2>3, <3>2 DEF Busy
      <4> QED
        BY <4>1 DEF Faithful
    <3> QED
      BY <3>1, <3>2
  <2>5. Busy(r)' /\ setup' = NoSetup /\ setup'.at = "idle" /\ ~stale'
    BY <2>1, <1>0, <1>3, <1>4, Shapes DEF Busy
  <2>6. file' # Torn => Loaded' = expected'
    BY <2>1, <1>0, <1>5 DEF Alone
  <2> QED
    BY <2>3, <2>4, <2>5, <2>6 DEF Alone
<1>10. ASSUME up' /\ ~mixed' PROVE OneByOne'
  <2>1. OneByOne /\ Working = {}
    BY <1>0, <1>10 DEF IInv
  <2>2. \A s \in Request : Busy(s)' => s = r
    BY <2>1, <1>4, <1>8 DEF Busy
  <2>3. \A s \in Request : request[s].at = "idle"
    BY <2>1, <1>8, Shapes
  <2> QED
    BY <2>1, <2>2, <2>3, <1>0, <1>3, <1>4, <1>5 DEF OneByOne, Busy
<1> QED
  BY <1>6, <1>7, <1>9, <1>10 DEF IInv

\* A request that ends, and one that goes on to another point: the others
\* stay where they are.
Requests == [Request -> [at : Point \cup {"idle"}, config : Config, named : SUBSET Flag]]

LEMMA Finishing ==
    ASSUME TypeOK, NEW r \in Request, Finish(r)
    PROVE  /\ request' \in Requests /\ request'[r] = Idle /\ ~Busy(r)'
           /\ \A s \in Request \ {r} : request'[s] = request[s] /\ (Busy(s)' <=> Busy(s))
<1>1. request \in Requests /\ request' = [request EXCEPT ![r] = Idle]
  BY DEF TypeOK, Requests, Finish
<1> QED
  BY <1>1, Shapes DEF Requests, Busy

LEMMA Moving ==
    ASSUME TypeOK, NEW r \in Request, NEW at \in Point, Goto(r, at)
    PROVE  /\ request' \in Requests /\ request'[r].at = at /\ Busy(r)' /\ request'[r] # Idle
           /\ request'[r].config = request[r].config /\ request'[r].named = request[r].named
           /\ \A s \in Request \ {r} : request'[s] = request[s] /\ (Busy(s)' <=> Busy(s))
<1>1. request \in Requests /\ request' = [request EXCEPT ![r].at = at]
  BY DEF TypeOK, Requests, Goto
<1>2. at # "idle"
  BY DEF Point
<1> QED
  BY <1>1, <1>2, Shapes DEF Requests, Busy

LEMMA LoadInv ==
    ASSUME IInv, NEW r \in Request, Load(r)
    PROVE  IInv'
<1>0. /\ request[r].at = "load" /\ Busy(r)
      /\ UNCHANGED <<file, up, shared, visible, setup, expected, stale, mixed, lost>>
  BY DEF Load, copies, Busy
<1>1. TypeOK /\ Still /\ up
  BY <1>0 DEF IInv, Still
<1>2. Loaded' = Loaded
  BY <1>0 DEF Loaded
<1>3. CASE file = Torn /\ Finish(r)
  <2>1. /\ request' \in Requests /\ request'[r] = Idle /\ ~Busy(r)'
        /\ \A s \in Request \ {r} : request'[s] = request[s] /\ (Busy(s)' <=> Busy(s))
    BY <1>1, <1>3, Finishing
  <2>2. TypeOK'
    BY <1>0, <1>1, <2>1 DEF TypeOK, Requests
  <2>3. Still'
    BY <1>0, <1>1, <2>1 DEF Still, Busy
  <2>4. ASSUME ~lost' PROVE Alone'
    <3>1. Alone
      BY <1>0, <2>4 DEF IInv
    <3>2. shared = expected.shown /\ ~stale
      BY <3>1, <1>0 DEF Alone, Faithful
    <3>3. \A s \in Request : Faithful(s)'
      <4>1. Faithful(r)'
        BY <2>1, Shapes DEF Faithful
      <4>2. ASSUME NEW s \in Request \ {r} PROVE Faithful(s)'
        BY <3>1, <1>0, <2>1, <4>2 DEF Alone, Faithful
      <4> QED
        BY <4>1, <4>2
    <3>4. \A s \in Request : ~Busy(s)'
      BY <3>1, <1>0, <2>1 DEF Alone
    <3>5. setup' = NoSetup /\ setup'.at = "idle"
      BY <3>1, <1>0, Shapes DEF Alone
    <3> QED
      BY <3>1, <3>2, <3>3, <3>4, <3>5, <1>0, <1>2 DEF Alone
  <2>5. ASSUME up' /\ ~mixed' PROVE OneByOne'
    <3>1. OneByOne
      BY <1>0, <2>5 DEF IInv
    <3>2. shared = visible /\ (stale \/ file = Torn \/ shared = Loaded.shown)
      BY <3>1, <1>0 DEF OneByOne, Busy
    <3> QED
      BY <3>1, <3>2, <1>0, <1>2, <2>1, Shapes DEF OneByOne
  <2> QED
    BY <2>2, <2>3, <2>4, <2>5 DEF IInv
<1>4. CASE /\ file # Torn
           /\ request' = [request EXCEPT ![r].at = "truncate", ![r].config.rest = Loaded.rest]
  <2>0. Loaded \in Config /\ Loaded.rest \in Rest
    BY <1>1, <1>4, LoadedType, Shapes
  <2>1. /\ request' \in Requests /\ request'[r].at = "truncate" /\ Busy(r)'
        /\ request'[r].config.shown = request[r].config.shown
        /\ request'[r].config.rest = Loaded.rest
        /\ request'[r].named = request[r].named
        /\ \A s \in Request \ {r} : request'[s] = request[s] /\ (Busy(s)' <=> Busy(s))
    BY <1>1, <1>4, <2>0 DEF TypeOK, Requests, Config, Point, Busy
  <2>2. TypeOK'
    BY <1>0, <1>1, <2>1 DEF TypeOK, Requests
  <2>3. Still'
    BY <1>0, <1>1, <2>1, Shapes DEF Still, Busy
  <2>4. ASSUME ~lost' PROVE Alone'
    <3>1. Alone
      BY <1>0, <2>4 DEF IInv
    <3>2. Faithful(r)'
      <4>1. Loaded.rest = expected.rest /\ shared = expected.shown
        BY <3>1, <1>0, <1>4 DEF Alone, Faithful
      <4>2. \A f \in Flag \ request[r].named : request[r].config.shown[f] = expected.shown[f]
        BY <3>1, <1>0 DEF Alone, Faithful
      <4> QED
        BY <4>1, <4>2, <1>0, <2>1 DEF Faithful
    <3>3. \A s \in Request : Faithful(s)'
      BY <3>1, <3>2, <1>0, <2>1 DEF Alone, Faithful
    <3> QED
      BY <3>1, <3>3, <1>0, <1>2, <2>1 DEF Alone
  <2>5. ASSUME up' /\ ~mixed' PROVE OneByOne'
    <3>1. OneByOne
      BY <1>0, <2>5 DEF IInv
    <3>2. shared = visible /\ (stale \/ file = Torn \/ shared = Loaded.shown)
      BY <3>1, <1>0 DEF OneByOne, Busy
    <3> QED
      BY <3>1, <3>2, <1>0, <1>2, <2>1 DEF OneByOne
  <2> QED
    BY <2>2, <2>3, <2>4, <2>5 DEF IInv
<1> QED
  BY <1>3, <1>4 DEF Load

LEMMA TruncateInv ==
    ASSUME IInv, NEW r \in Request, Truncate(r)
    PROVE  IInv'
<1>0. /\ request[r].at = "truncate" /\ Busy(r) /\ file' = Torn /\ Goto(r, "write")
      /\ UNCHANGED <<up, shared, visible, setup, expected, stale, mixed, lost>>
  BY DEF Truncate, copies, Busy
<1>1. TypeOK /\ Still /\ up
  BY <1>0 DEF IInv, Still
<1>2. /\ request' \in Requests /\ request'[r].at = "write" /\ Busy(r)' /\ request'[r] # Idle
      /\ request'[r].config = request[r].config /\ request'[r].named = request[r].named
      /\ \A s \in Request \ {r} : request'[s] = request[s] /\ (Busy(s)' <=> Busy(s))
  <2>1. "write" \in Point
    BY DEF Point
  <2> QED
    BY <1>0, <1>1, <2>1, Moving
<1>3. TypeOK'
  BY <1>0, <1>1, <1>2 DEF TypeOK, Requests
<1>4. Still'
  BY <1>0, <1>1, <1>2 DEF Still, Busy
<1>5. ASSUME ~lost' PROVE Alone'
  <2>1. Alone
    BY <1>0, <1>5 DEF IInv
  <2>2. Faithful(r)'
    BY <2>1, <1>0, <1>2 DEF Alone, Faithful
  <2>3. \A s \in Request : Faithful(s)'
    BY <2>1, <2>2, <1>0, <1>2 DEF Alone, Faithful
  <2>4. setup = NoSetup
    BY <2>1, <1>0 DEF Alone
  <2> QED
    BY <2>1, <2>3, <2>4, <1>0, <1>2, Shapes DEF Alone
<1>6. ASSUME up' /\ ~mixed' PROVE OneByOne'
  <2>1. OneByOne
    BY <1>0, <1>6 DEF IInv
  <2>2. shared = visible
    BY <2>1, <1>0 DEF OneByOne, Busy
  <2> QED
    BY <2>1, <2>2, <1>0, <1>2 DEF OneByOne
<1> QED
  BY <1>3, <1>4, <1>5, <1>6 DEF IInv

LEMMA WriteInv ==
    ASSUME IInv, NEW r \in Request, Write(r)
    PROVE  IInv'
<1>0. /\ request[r].at = "write" /\ Busy(r)
      /\ UNCHANGED <<up, shared, visible, setup, stale, mixed, lost>>
  BY DEF Write, copies, Busy
<1>1. TypeOK /\ Still /\ up
  BY <1>0 DEF IInv, Still
<1>2. CASE /\ file' = request[r].config
           /\ expected' = Asking(request[r].named, request[r].config.shown, expected.rest)
           /\ Goto(r, "share")
  <2>1. /\ request' \in Requests /\ request'[r].at = "share" /\ Busy(r)' /\ request'[r] # Idle
        /\ request'[r].config = request[r].config /\ request'[r].named = request[r].named
        /\ \A s \in Request \ {r} : request'[s] = request[s] /\ (Busy(s)' <=> Busy(s))
    <3>1. "share" \in Point
      BY DEF Point
    <3> QED
      BY <1>1, <1>2, <3>1, Moving
  <2>2. request[r].config \in Config /\ request[r].named \subseteq Flag /\ expected \in Config
    BY <1>1 DEF TypeOK
  <2>3. /\ file' \in Config /\ file' # Torn /\ file' # NoFile
        /\ Loaded' = request[r].config
    BY <1>2, <2>2, Shapes DEF Loaded
  <2>4. expected' \in Config
    BY <1>2, <2>2, Shapes DEF Asking, Config, Shown
  <2>5. TypeOK'
    BY <1>0, <1>1, <2>1, <2>3, <2>4 DEF TypeOK, Requests
  <2>6. Still'
    BY <1>0, <1>1, <2>1 DEF Still, Busy
  <2>7. ASSUME ~lost' PROVE Alone'
    <3>1. Alone /\ ~lost
      BY <1>0, <2>7 DEF IInv
    <3>2. request[r].config.rest = expected.rest /\ setup = NoSetup
      BY <3>1, <1>0 DEF Alone, Faithful
    <3>3. \A f \in Flag \ request[r].named : request[r].config.shown[f] = expected.shown[f]
      BY <3>1, <1>0 DEF Alone, Faithful
    <3>4. expected' = request[r].config
      <4>1. request[r].config.shown \in Shown /\ expected.shown \in Shown
        BY <2>2, Shapes
      <4>2. expected' = [shown |-> [f \in Flag |-> IF f \in request[r].named
                                       THEN request[r].config.shown[f] ELSE expected.shown[f]],
                         rest |-> expected.rest]
        BY <1>2, <3>1 DEF Asking
      <4>3. [f \in Flag |-> IF f \in request[r].named
                              THEN request[r].config.shown[f] ELSE expected.shown[f]]
              = request[r].config.shown
        BY <3>3, <4>1 DEF Shown
      <4> QED
        BY <4>2, <4>3, <3>2, <2>2 DEF Config
    <3>5. \A s \in Request : Faithful(s)'
      <4>1. \A s \in Request \ {r} : request'[s].at = "idle"
        BY <3>1, <1>0, <2>1 DEF Alone, Busy
      <4> QED
        BY <4>1, <3>4, <2>1 DEF Faithful
    <3> QED
      BY <3>1, <3>2, <3>4, <3>5, <1>0, <2>1, <2>3, Shapes DEF Alone
  <2>8. ASSUME up' /\ ~mixed' PROVE OneByOne'
    <3>1. OneByOne
      BY <1>0, <2>8 DEF IInv
    <3>2. shared = visible
      BY <3>1, <1>0 DEF OneByOne, Busy
    <3>3. \A s \in Request \ {r} : request'[s].at = "idle"
      BY <3>1, <1>0, <2>1 DEF OneByOne, Busy
    <3> QED
      BY <3>1, <3>2, <3>3, <1>0, <2>1, <2>3 DEF OneByOne, Busy
  <2> QED
    BY <2>5, <2>6, <2>7, <2>8 DEF IInv
<1>3. CASE file' = Torn /\ Finish(r) /\ UNCHANGED expected
  <2>1. /\ request' \in Requests /\ request'[r] = Idle /\ ~Busy(r)'
        /\ \A s \in Request \ {r} : request'[s] = request[s] /\ (Busy(s)' <=> Busy(s))
    BY <1>1, <1>3, Finishing
  <2>2. TypeOK'
    BY <1>0, <1>1, <1>3, <2>1 DEF TypeOK, Requests
  <2>3. Still'
    BY <1>0, <1>1, <2>1 DEF Still, Busy
  <2>4. ASSUME ~lost' PROVE Alone'
    <3>1. Alone
      BY <1>0, <2>4 DEF IInv
    <3>2. shared = expected.shown /\ ~stale /\ setup = NoSetup
      BY <3>1, <1>0 DEF Alone, Faithful
    <3>3. \A s \in Request : Faithful(s)'
      BY <3>1, <1>0, <1>3, <2>1, Shapes DEF Alone, Faithful
    <3> QED
      BY <3>1, <3>2, <3>3, <1>0, <1>3, <2>1, Shapes DEF Alone
  <2>5. ASSUME up' /\ ~mixed' PROVE OneByOne'
    <3>1. OneByOne
      BY <1>0, <2>5 DEF IInv
    <3>2. shared = visible
      BY <3>1, <1>0 DEF OneByOne, Busy
    <3>3. \A s \in Request : request'[s].at = "idle"
      BY <3>1, <1>0, <2>1, Shapes DEF OneByOne, Busy
    <3> QED
      BY <3>2, <3>3, <1>0, <1>3, <2>1 DEF OneByOne, Busy
  <2> QED
    BY <2>2, <2>3, <2>4, <2>5 DEF IInv
<1> QED
  BY <1>2, <1>3 DEF Write

LEMMA ShareInv ==
    ASSUME IInv, NEW r \in Request, Share(r)
    PROVE  IInv'
<1>0. /\ request[r].at = "share" /\ Busy(r) /\ Goto(r, "tell")
      /\ shared' = request[r].config.shown
      /\ UNCHANGED <<file, up, visible, setup, expected, stale, mixed, lost>>
  BY DEF Share, Busy
<1>1. TypeOK /\ Still /\ up
  BY <1>0 DEF IInv, Still
<1>2. /\ request' \in Requests /\ request'[r].at = "tell" /\ Busy(r)' /\ request'[r] # Idle
      /\ request'[r].config = request[r].config /\ request'[r].named = request[r].named
      /\ \A s \in Request \ {r} : request'[s] = request[s] /\ (Busy(s)' <=> Busy(s))
  <2>1. "tell" \in Point
    BY DEF Point
  <2> QED
    BY <1>0, <1>1, <2>1, Moving
<1>3. Loaded' = Loaded
  BY <1>0 DEF Loaded
<1>4. shared' \in Shown
  BY <1>0, <1>1, Shapes DEF TypeOK
<1>5. TypeOK'
  BY <1>0, <1>1, <1>2, <1>4 DEF TypeOK, Requests
<1>6. Still'
  BY <1>0, <1>1, <1>2 DEF Still, Busy
<1>7. ASSUME ~lost' PROVE Alone'
  <2>1. Alone
    BY <1>0, <1>7 DEF IInv
  <2>2. shared' = expected.shown
    BY <2>1, <1>0 DEF Alone, Faithful
  <2>3. \A s \in Request \ {r} : request'[s].at = "idle"
    BY <2>1, <1>0, <1>2 DEF Alone, Busy
  <2>4. \A s \in Request : Faithful(s)'
    BY <2>2, <2>3, <1>0, <1>2 DEF Faithful
  <2> QED
    BY <2>1, <2>4, <1>0, <1>2, <1>3 DEF Alone
<1>8. ASSUME up' /\ ~mixed' PROVE OneByOne'
  <2>1. OneByOne
    BY <1>0, <1>8 DEF IInv
  <2>2. \A s \in Request \ {r} : request'[s].at = "idle"
    BY <2>1, <1>0, <1>2 DEF OneByOne, Busy
  <2>3. stale \/ file = Torn \/ request[r].config.shown = Loaded.shown
    BY <2>1, <1>0 DEF OneByOne
  <2> QED
    BY <2>1, <2>2, <2>3, <1>0, <1>2, <1>3 DEF OneByOne, Busy
<1> QED
  BY <1>5, <1>6, <1>7, <1>8 DEF IInv

LEMMA TellInv ==
    ASSUME IInv, NEW r \in Request, Tell(r)
    PROVE  IInv'
<1>0. /\ request[r].at = "tell" /\ Busy(r) /\ Finish(r)
      /\ visible' = request[r].config.shown
      /\ UNCHANGED <<file, up, shared, setup, expected, stale, mixed, lost>>
  BY DEF Tell, Told, Busy
<1>1. TypeOK /\ Still /\ up
  BY <1>0 DEF IInv, Still
<1>2. /\ request' \in Requests /\ request'[r] = Idle /\ ~Busy(r)'
      /\ \A s \in Request \ {r} : request'[s] = request[s] /\ (Busy(s)' <=> Busy(s))
  BY <1>0, <1>1, Finishing
<1>3. Loaded' = Loaded
  BY <1>0 DEF Loaded
<1>4. visible' \in Shown
  BY <1>0, <1>1, Shapes DEF TypeOK
<1>5. TypeOK'
  BY <1>0, <1>1, <1>2, <1>4 DEF TypeOK, Requests
<1>6. Still'
  BY <1>0, <1>1, <1>2 DEF Still, Busy
<1>7. ASSUME ~lost' PROVE Alone'
  <2>1. Alone
    BY <1>0, <1>7 DEF IInv
  <2>2. shared = expected.shown /\ ~stale
    BY <2>1, <1>0 DEF Alone, Faithful
  <2>3. \A s \in Request : Faithful(s)'
    BY <2>1, <1>0, <1>2, Shapes DEF Alone, Faithful
  <2> QED
    BY <2>1, <2>2, <2>3, <1>0, <1>2, <1>3 DEF Alone
<1>8. ASSUME up' /\ ~mixed' PROVE OneByOne'
  <2>1. OneByOne
    BY <1>0, <1>8 DEF IInv
  <2>2. \A s \in Request : request'[s].at = "idle"
    BY <2>1, <1>0, <1>2, Shapes DEF OneByOne, Busy
  <2>3. shared = visible' /\ (stale \/ file = Torn \/ shared = Loaded.shown)
    BY <2>1, <1>0 DEF OneByOne
  <2> QED
    BY <2>2, <2>3, <1>0, <1>3 DEF OneByOne, Busy
<1> QED
  BY <1>5, <1>6, <1>7, <1>8 DEF IInv

-----------------------------------------------------------------------------
(* Setup *)

\* A step of setup leaves the requests where they are.
LEMMA AskInv ==
    ASSUME IInv, Ask
    PROVE  IInv'
<1>0. /\ setup = NoSetup /\ file # Torn
      /\ setup' = [at |-> "asking", config |-> Loaded]
      /\ lost' = (lost \/ Working # {})
      /\ expected' = IF lost' THEN Default ELSE expected
      /\ UNCHANGED <<file, up, shared, visible, request, stale, mixed>>
  BY DEF Ask, copies
<1>1. TypeOK /\ Still /\ Loaded' = Loaded /\ Loaded \in Config
  BY <1>0, LoadedType DEF IInv, Loaded
<1>2. setup'.at = "asking" /\ setup'.config = Loaded /\ setup' # NoSetup
  BY <1>0, Shapes
<1>3. setup' \in [at : {"idle", "asking", "truncate", "write"}, config : Config]
  BY <1>0, <1>1
<1>4. TypeOK'
  BY <1>0, <1>1, <1>3, Shapes DEF TypeOK
<1>5. Still'
  BY <1>0, <1>1, <1>2 DEF Still, Busy
<1>6. ASSUME ~lost' PROVE Alone'
  <2>1. Alone /\ expected' = expected /\ Working = {}
    BY <1>0, <1>6 DEF IInv
  <2>2. \A r \in Request : request[r] = Idle /\ ~Busy(r)
    BY <2>1, <1>1 DEF Working, Still
  <2>3. \A r \in Request : Faithful(r)'
    BY <2>1, <1>0 DEF Alone, Faithful
  <2> QED
    BY <2>1, <2>2, <2>3, <1>0, <1>1, <1>2 DEF Alone, Busy
<1>7. ASSUME up' /\ ~mixed' PROVE OneByOne'
  BY <1>0, <1>1, <1>7 DEF IInv, OneByOne, Busy
<1> QED
  BY <1>4, <1>5, <1>6, <1>7 DEF IInv

LEMMA AnswerInv ==
    ASSUME IInv, NEW shown \in Shown, NEW rest \in Rest, Answer(shown, rest)
    PROVE  IInv'
<1>0. /\ setup.at = "asking"
      /\ \A f \in Flag \ Asked : shown[f] = setup.config.shown[f]
      /\ setup' = [at |-> "truncate", config |-> [shown |-> shown, rest |-> rest]]
      /\ UNCHANGED <<file, up, shared, visible, request, expected, stale, mixed, lost>>
  BY DEF Answer, copies
<1>1. TypeOK /\ Still /\ Loaded' = Loaded
  BY <1>0 DEF IInv, Loaded
<1>2. /\ setup'.at = "truncate" /\ setup'.config.shown = shown /\ setup' # NoSetup
      /\ setup' \in [at : {"idle", "asking", "truncate", "write"}, config : Config]
  BY <1>0, Shapes DEF Config
<1>3. TypeOK'
  BY <1>0, <1>1, <1>2 DEF TypeOK
<1>4. Still'
  BY <1>0, <1>1, <1>2 DEF Still, Busy
<1>5. ASSUME ~lost' PROVE Alone'
  <2>1. Alone /\ setup # NoSetup
    BY <1>0, <1>5, Shapes DEF IInv
  <2>2. \A r \in Request : ~Busy(r)
    BY <2>1 DEF Alone
  <2>3. \A r \in Request : Faithful(r)'
    BY <2>1, <1>0 DEF Alone, Faithful
  <2>4. setup.config = expected
    BY <2>1, <1>0 DEF Alone
  <2>5. \A f \in Flag \ Asked : setup'.config.shown[f] = expected'.shown[f]
    BY <2>4, <1>0, <1>2
  <2> QED
    BY <2>1, <2>2, <2>3, <2>5, <1>0, <1>1, <1>2 DEF Alone, Busy
<1>6. ASSUME up' /\ ~mixed' PROVE OneByOne'
  BY <1>0, <1>1, <1>6 DEF IInv, OneByOne, Busy
<1> QED
  BY <1>3, <1>4, <1>5, <1>6 DEF IInv

LEMMA CancelInv ==
    ASSUME IInv, Cancel
    PROVE  IInv'
<1>0. /\ setup.at \in {"asking", "truncate"} /\ setup' = NoSetup
      /\ UNCHANGED <<file, up, shared, visible, request, expected, stale, mixed, lost>>
  BY DEF Cancel, copies
<1>1. TypeOK /\ Still /\ Loaded' = Loaded
  BY <1>0 DEF IInv, Loaded
<1>2. TypeOK'
  BY <1>0, <1>1, Shapes DEF TypeOK
<1>3. Still'
  BY <1>0, <1>1, Shapes DEF Still, Busy
<1>4. ASSUME ~lost' PROVE Alone'
  <2>1. Alone
    BY <1>0, <1>4 DEF IInv
  <2>2. \A r \in Request : Faithful(r)'
    BY <2>1, <1>0 DEF Alone, Faithful
  <2> QED
    BY <2>1, <2>2, <1>0, <1>1, Shapes DEF Alone, Busy
<1>5. ASSUME up' /\ ~mixed' PROVE OneByOne'
  BY <1>0, <1>1, <1>5 DEF IInv, OneByOne, Busy
<1> QED
  BY <1>2, <1>3, <1>4, <1>5 DEF IInv

LEMMA TruncateSetupInv ==
    ASSUME IInv, TruncateSetup
    PROVE  IInv'
<1>0. /\ setup.at = "truncate" /\ setup' = [setup EXCEPT !.at = "write"] /\ file' = Torn
      /\ UNCHANGED <<up, shared, visible, request, expected, stale, mixed, lost>>
  BY DEF TruncateSetup, copies
<1>1. TypeOK /\ Still
  BY DEF IInv
<1>2. /\ setup'.at = "write" /\ setup'.config = setup.config /\ setup' # NoSetup /\ setup # NoSetup
      /\ setup' \in [at : {"idle", "asking", "truncate", "write"}, config : Config]
  BY <1>0, <1>1, Shapes DEF TypeOK
<1>3. TypeOK'
  BY <1>0, <1>1, <1>2 DEF TypeOK
<1>4. Still'
  BY <1>0, <1>1, <1>2 DEF Still, Busy
<1>5. ASSUME ~lost' PROVE Alone'
  <2>1. Alone
    BY <1>0, <1>5 DEF IInv
  <2>2. \A r \in Request : ~Busy(r)
    BY <2>1, <1>2 DEF Alone
  <2>3. \A r \in Request : Faithful(r)'
    BY <2>1, <1>0 DEF Alone, Faithful
  <2> QED
    BY <2>1, <2>2, <2>3, <1>0, <1>2 DEF Alone, Busy
<1>6. ASSUME up' /\ ~mixed' PROVE OneByOne'
  BY <1>0, <1>6 DEF IInv, OneByOne, Busy
<1> QED
  BY <1>3, <1>4, <1>5, <1>6 DEF IInv

LEMMA SaveSetupInv ==
    ASSUME IInv, SaveSetup
    PROVE  IInv'
<1>0. /\ setup.at = "write" /\ setup' = NoSetup
      /\ UNCHANGED <<up, shared, visible, request, mixed, lost>>
  BY DEF SaveSetup, copies
<1>1. TypeOK /\ Still /\ setup # NoSetup /\ setup.config \in Config
  BY <1>0, Shapes DEF IInv, TypeOK
<1>2. setup' = NoSetup /\ setup'.at = "idle"
      /\ setup' \in [at : {"idle", "asking", "truncate", "write"}, config : Config]
  BY <1>0, Shapes
<1>3. CASE UNCHANGED <<file, expected, stale>>
  <2>1. Loaded' = Loaded
    BY <1>3 DEF Loaded
  <2>2. TypeOK'
    BY <1>0, <1>1, <1>2, <1>3 DEF TypeOK
  <2>3. Still'
    BY <1>0, <1>1, <1>2, <1>3 DEF Still, Busy
  <2>4. ASSUME ~lost' PROVE Alone'
    <3>1. Alone
      BY <1>0, <2>4 DEF IInv
    <3>2. \A r \in Request : Faithful(r)'
      BY <3>1, <1>0, <1>3 DEF Alone, Faithful
    <3> QED
      BY <3>1, <3>2, <2>1, <1>0, <1>2, <1>3 DEF Alone, Busy
  <2>5. ASSUME up' /\ ~mixed' PROVE OneByOne'
    BY <1>0, <1>3, <2>1, <2>5 DEF IInv, OneByOne, Busy
  <2> QED
    BY <2>2, <2>3, <2>4, <2>5 DEF IInv
<1>4. CASE /\ file' = setup.config /\ stale' = up
           /\ expected' = Asking(Asked, setup.config.shown, setup.config.rest)
  <2>1. file' # Torn /\ Loaded' = setup.config
    BY <1>1, <1>4, Shapes DEF Loaded
  <2>2. expected' \in Config
    BY <1>1, <1>4, Shapes DEF Asking, Config, Shown, IInv, TypeOK
  <2>3. TypeOK'
    <3>1. stale' \in BOOLEAN /\ file' \in Config
      BY <1>1, <1>4 DEF TypeOK
    <3> QED
      BY <1>0, <1>1, <1>2, <2>2, <3>1 DEF TypeOK
  <2>4. Still'
    BY <1>0, <1>1, <1>2, <1>4 DEF Still, Busy
  <2>5. ASSUME ~lost' PROVE Alone'
    <3>1. Alone /\ ~lost
      BY <1>0, <2>5 DEF IInv
    <3>2. \A r \in Request : ~Busy(r)
      BY <3>1, <1>1 DEF Alone
    <3>3. expected' = setup.config
      <4>1. setup.config.shown \in Shown /\ expected.shown \in Shown
        BY <1>1, Shapes DEF TypeOK
      <4>2. \A f \in Flag \ Asked : setup.config.shown[f] = expected.shown[f]
        BY <3>1, <1>0 DEF Alone
      <4>3. expected' = [shown |-> [f \in Flag |-> IF f \in Asked
                                       THEN setup.config.shown[f] ELSE expected.shown[f]],
                         rest |-> setup.config.rest]
        BY <1>4, <3>1 DEF Asking
      <4>4. [f \in Flag |-> IF f \in Asked THEN setup.config.shown[f] ELSE expected.shown[f]]
              = setup.config.shown
        BY <4>1, <4>2 DEF Shown
      <4> QED
        BY <4>3, <4>4, <1>1 DEF Config
    <3>4. \A r \in Request : Faithful(r)'
      BY <3>2, <1>0 DEF Faithful, Busy
    <3> QED
      BY <3>1, <3>2, <3>3, <3>4, <1>0, <1>2, <1>4, <2>1 DEF Alone, Busy
  <2>6. ASSUME up' /\ ~mixed' PROVE OneByOne'
    <3>1. OneByOne /\ stale'
      BY <1>0, <1>4, <2>6 DEF IInv
    <3> QED
      BY <3>1, <1>0 DEF OneByOne, Busy
  <2> QED
    BY <2>3, <2>4, <2>5, <2>6 DEF IInv
<1> QED
  BY <1>3, <1>4 DEF SaveSetup

LEMMA StutterInv == IInv /\ UNCHANGED vars => IInv'
BY DEF vars, IInv, TypeOK, Still, Alone, OneByOne, Faithful, Busy, Loaded

-----------------------------------------------------------------------------
(* The invariant, and what follows from it *)

\* Every reachable state satisfies the inductive invariant: what a request or
\* setup will write and what the file says (Alone), and what a request carries
\* to the two copies (OneByOne).  The steps of decodeSettings, updateSettings,
\* Save and runSetup preserve it.
THEOREM RequestsAreFollowed == Spec => []IInv
<1>1. ASSUME IInv, [Next]_vars PROVE IInv'
  <2>1. CASE Start
    BY <1>1, <2>1, StartInv
  <2>2. CASE End
    BY <1>1, <2>2, EndInv
  <2>3. ASSUME NEW r \in Request,
               \/ \E patch \in Patch : Decode(r, patch)
               \/ Load(r) \/ Truncate(r) \/ Write(r) \/ Share(r) \/ Tell(r)
        PROVE  IInv'
    BY <1>1, <2>3, DecodeInv, LoadInv, TruncateInv, WriteInv, ShareInv, TellInv
  <2>4. CASE Ask \/ Cancel \/ TruncateSetup \/ SaveSetup
    BY <1>1, <2>4, AskInv, CancelInv, TruncateSetupInv, SaveSetupInv
  <2>5. CASE \E shown \in Shown, rest \in Rest : Answer(shown, rest)
    BY <1>1, <2>5, AnswerInv
  <2>6. CASE UNCHANGED vars
    BY <1>1, <2>6, StutterInv
  <2> QED
    BY <1>1, <2>1, <2>2, <2>3, <2>4, <2>5, <2>6 DEF Next
<1> QED
  BY InitInv, <1>1, PTL DEF Spec

\* The file, the copies and what requests and setup carry keep their types.
THEOREM TypeCorrect == Spec => []TypeOK
<1>1. IInv => TypeOK
  BY DEF IInv
<1> QED
  BY RequestsAreFollowed, <1>1, PTL

\* As long as requests and setup come one after another, the file says what
\* was asked for last, whatever fails or is killed (updateSettings, runSetup).
THEOREM NothingIsReverted == Spec => []NothingReverted
<1>1. IInv => NothingReverted
  BY DEF IInv, Alone, NothingReverted
<1> QED
  BY RequestsAreFollowed, <1>1, PTL

\* When no request is at work, and no two were, the daemon's flags are the
\* manager's and the file's (updateSettings, runDaemon).
THEOREM CopiesAreKept == Spec => []CopiesAgree
<1>1. ASSUME IInv PROVE CopiesAgree
  <2> SUFFICES ASSUME up, Working = {}, ~mixed
               PROVE  shared = visible /\ (stale \/ file = Torn \/ shared = Loaded.shown)
    BY DEF CopiesAgree
  <2>1. \A r \in Request : request[r].at = "idle"
    BY Shapes DEF Working
  <2> QED
    BY <1>1, <2>1 DEF IInv, OneByOne
<1> QED
  BY RequestsAreFollowed, <1>1, PTL

===============================================================================
