------------------------------ MODULE PamProxy ------------------------------
(***************************************************************************)
(* The PAM module of the repository: a wrapper around pam_fprintd.  Every  *)
(* entry point is call_real, which sets the locale of the whole process to *)
(* "C", puts a conversation function of its own in front of the            *)
(* application's, calls the real module and puts everything back.          *)
(*                                                                         *)
(* Threads of one application may authenticate at the same time, each with *)
(* a PAM handle of its own, and the application may set the locale at any  *)
(* moment.  The proxy that the replaced conversation points to is on the   *)
(* stack of call_real: it is gone when the call has returned.              *)
(*                                                                         *)
(* libpam, the dynamic linker and the real module are external: a call of  *)
(* theirs succeeds or fails.  The real module asks for a finger in the     *)
(* language of the process's locale, by the name of any finger that can be *)
(* enrolled or by none, and it may do so several times.                    *)
(*                                                                         *)
(* Definitions named ...Mutant are wrong variants of the definition after  *)
(* them, kept to show that the properties notice the difference.           *)
(***************************************************************************)
EXTENDS Naturals

CONSTANTS Threads,   \* threads of the application that call PAM
          Locales,   \* the locales the application may set
          MaxCalls,  \* bound: calls of the wrapper
          MaxSets    \* bound: times the application sets a locale

ASSUME PamProxyAssumption ==
    /\ "C" \in Locales
    /\ "NULL" \notin Locales
    /\ "nobody" \notin Threads
    /\ "app" \notin Threads
    /\ MaxCalls \in Nat
    /\ MaxSets \in Nat

VARIABLES
    where,   \* where each thread is
    mutex,   \* who holds locale_lock, or "nobody"
    locale,  \* the locale of the process
    saved,   \* each thread's saved_locale, or "NULL"
    loaded,  \* the libraries each thread's call has opened
    conv,    \* the conversation of each thread's PAM handle: the
             \* application's, "app", or the proxy of a thread's call
    answer   \* what each thread's call is about to return

(***************************************************************************)
(* History variables.                                                      *)
(***************************************************************************)
VARIABLES
    wanted,  \* the locale the application set last
    raced,   \* it did so while a call held the lock
    unsaved, \* a call could not copy the locale since then
    refused, \* a call could not set the copied locale since then
    stuck,   \* the threads whose conversation could not be put back
    shown,   \* the placement prompts that have reached an application
    calls,
    sets

localeVars == <<locale, saved>>
history    == <<wanted, raced, unsaved, refused, stuck, shown, calls, sets>>
pamVars == <<where, mutex, localeVars, loaded, conv, answer, history>>

Results   == {"SYSTEM_ERR", "forwarded"}
Libraries == {"libpam", "real"}

(***************************************************************************)
(* Placement prompts: in English without a finger's name ("Place your      *)
(* finger ..."), with that of a finger ("... left index finger ...") or of *)
(* a thumb ("... left thumb ..."), and in any other language.              *)
(***************************************************************************)
English == {"generic", "finger", "thumb"}
Prompts == English \cup {"foreign"}

(***************************************************************************)
(* The steps of call_real: those before the lock, those between lock and   *)
(* unlock, and the end.                                                    *)
(***************************************************************************)
InsideLock == {"save", "english", "libpam", "module", "replace", "entry",
               "giveBack", "unload", "relocale", "unlock"}
Steps == {"idle", "check", "lock"} \cup InsideLock

PamTypeOK ==
    /\ where \in [Threads -> Steps]
    /\ mutex \in Threads \cup {"nobody"}
    /\ locale \in Locales
    /\ saved \in [Threads -> Locales \cup {"NULL"}]
    /\ loaded \in [Threads -> SUBSET Libraries]
    /\ conv \in [Threads -> Threads \cup {"app"}]
    /\ answer \in [Threads -> Results]
    /\ wanted \in Locales
    /\ raced \in BOOLEAN
    /\ unsaved \in BOOLEAN
    /\ refused \in BOOLEAN
    /\ stuck \subseteq Threads
    /\ shown \subseteq Prompts
    /\ calls \in 0..MaxCalls
    /\ sets \in 0..MaxSets

PamInit ==
    /\ where = [t \in Threads |-> "idle"]
    /\ mutex = "nobody"
    /\ locale \in Locales
    /\ saved = [t \in Threads |-> "NULL"]
    /\ loaded = [t \in Threads |-> {}]
    /\ conv = [t \in Threads |-> "app"]
    /\ answer = [t \in Threads |-> "SYSTEM_ERR"]
    /\ wanted = locale
    /\ raced = FALSE
    /\ unsaved = FALSE
    /\ refused = FALSE
    /\ stuck = {}
    /\ shown = {}
    /\ calls = 0
    /\ sets = 0

Goto(t, place) == where' = [where EXCEPT ![t] = place]

-----------------------------------------------------------------------------
(* The application.                                                        *)

(***************************************************************************)
(* One of the entry points, each of which is call_real with its own name.  *)
(***************************************************************************)
Call(t) ==
    /\ where[t] = "idle"
    /\ calls < MaxCalls
    /\ calls' = calls + 1
    /\ answer' = [answer EXCEPT ![t] = "SYSTEM_ERR"]
    /\ Goto(t, "check")
    /\ UNCHANGED <<mutex, localeVars, loaded, conv, wanted, raced, unsaved,
                   refused, stuck, shown, sets>>

(***************************************************************************)
(* The application sets its locale, from some thread or other.  It knows   *)
(* nothing of locale_lock.                                                 *)
(***************************************************************************)
SetLocale(l) ==
    /\ sets < MaxSets
    /\ sets' = sets + 1
    /\ locale' = l
    /\ wanted' = l
    /\ raced' = (mutex # "nobody")
    /\ unsaved' = FALSE
    /\ refused' = FALSE
    /\ UNCHANGED <<where, mutex, saved, loaded, conv, answer, stuck, shown, calls>>

-----------------------------------------------------------------------------
(* call_real.                                                              *)

(***************************************************************************)
(* real_module_is_safe: the real module is a regular file of root's, in    *)
(* its directory and writable by nobody else.  Unsafe: the call returns.   *)
(***************************************************************************)
CheckModule(t) ==
    /\ where[t] = "check"
    /\ \E safe \in BOOLEAN : Goto(t, IF safe THEN "lock" ELSE "idle")
    /\ UNCHANGED <<mutex, localeVars, loaded, conv, answer, history>>

NoLockMutant(t) == mutex' = t

TakeMutex(t) == mutex = "nobody" /\ mutex' = t

Lock(t) ==
    /\ where[t] = "lock"
    /\ TakeMutex(t)
    /\ Goto(t, "save")
    /\ UNCHANGED <<localeVars, loaded, conv, answer, history>>

(***************************************************************************)
(* setlocale(LC_ALL, NULL) and strdup.  No memory for the copy: the call   *)
(* goes on without one.                                                    *)
(***************************************************************************)
SaveLocale(t) ==
    /\ where[t] = "save"
    /\ \/ /\ saved' = [saved EXCEPT ![t] = locale]
          /\ UNCHANGED unsaved
       \/ /\ saved' = [saved EXCEPT ![t] = "NULL"]
          /\ unsaved' = TRUE
    /\ Goto(t, "english")
    /\ UNCHANGED <<mutex, locale, loaded, conv, answer, wanted, raced, refused,
                   stuck, shown, calls, sets>>

(***************************************************************************)
(* setlocale(LC_ALL, "C").  A failure here and in the steps below goes to  *)
(* the label "out", whose first step is GiveBackConversation.              *)
(***************************************************************************)
ToEnglish(t) ==
    /\ where[t] = "english"
    /\ \/ /\ locale' = "C"
          /\ Goto(t, "libpam")
       \/ /\ Goto(t, "giveBack")
          /\ UNCHANGED locale
    /\ UNCHANGED <<mutex, saved, loaded, conv, answer, history>>

(***************************************************************************)
(* dlopen of libpam, with pam_get_item and pam_set_item from it.           *)
(***************************************************************************)
LoadPam(t) ==
    /\ where[t] = "libpam"
    /\ \/ /\ Goto(t, "giveBack")
          /\ UNCHANGED loaded
       \/ /\ loaded' = [loaded EXCEPT ![t] = @ \cup {"libpam"}]
          /\ \E found \in BOOLEAN :
                Goto(t, IF found THEN "module" ELSE "giveBack")
    /\ UNCHANGED <<mutex, localeVars, conv, answer, history>>

(***************************************************************************)
(* dlopen of the real module, with the entry point from it.                *)
(***************************************************************************)
LoadModule(t) ==
    /\ where[t] = "module"
    /\ \/ /\ Goto(t, "giveBack")
          /\ UNCHANGED loaded
       \/ /\ loaded' = [loaded EXCEPT ![t] = @ \cup {"real"}]
          /\ \E found \in BOOLEAN :
                Goto(t, IF found THEN "replace" ELSE "giveBack")
    /\ UNCHANGED <<mutex, localeVars, conv, answer, history>>

(***************************************************************************)
(* The conversation is read, copied by value, and replaced by the proxy.   *)
(***************************************************************************)
ReplaceConversation(t) ==
    /\ where[t] = "replace"
    /\ \/ /\ conv' = [conv EXCEPT ![t] = t]
          /\ Goto(t, "entry")
       \/ /\ Goto(t, "giveBack")
          /\ UNCHANGED conv
    /\ UNCHANGED <<mutex, localeVars, loaded, answer, history>>

(***************************************************************************)
(* is_fingerprint_placement_prompt: the text begins with "Place your ",    *)
(* and "finger on the fingerprint reader" is somewhere in it, which a      *)
(* thumb's prompt does not have.                                           *)
(***************************************************************************)
NoNameMutant(message) == message = "generic"

IsPlacementPrompt(message) ==
    /\ message \in English
    /\ message # "thumb"

ProxyPrompt(message) == IF IsPlacementPrompt(message) THEN "generic" ELSE message

(***************************************************************************)
(* The real module asks for a finger: proxy_conversation replaces a prompt *)
(* it recognises by the generic one and passes any other on as it is.  No  *)
(* memory for the copies: the module sees a failure and the application    *)
(* nothing.                                                                *)
(***************************************************************************)
AskedIn(l) == IF l = "C" THEN English ELSE {"foreign"}

Ask(t) ==
    /\ where[t] = "entry"
    /\ \E message \in AskedIn(locale) : shown' = shown \cup {ProxyPrompt(message)}
    /\ UNCHANGED <<where, mutex, localeVars, loaded, conv, answer, wanted, raced,
                   unsaved, refused, stuck, calls, sets>>

(***************************************************************************)
(* The entry point returns: the answer of the real module is the call's.   *)
(***************************************************************************)
EntryReturns(t) ==
    /\ where[t] = "entry"
    /\ answer' = [answer EXCEPT ![t] = "forwarded"]
    /\ Goto(t, "giveBack")
    /\ UNCHANGED <<mutex, localeVars, loaded, conv, history>>

(***************************************************************************)
(* The label "out".  Whether pam_set_item took the original conversation   *)
(* back is not looked at.                                                  *)
(***************************************************************************)
OnlyOnFailureMutant(t) == conv[t] = t /\ answer[t] = "SYSTEM_ERR"

MustGiveBack(t) == conv[t] = t

GiveBackConversation(t) ==
    /\ where[t] = "giveBack"
    /\ \/ /\ conv' = [conv EXCEPT ![t] = IF MustGiveBack(t) THEN "app" ELSE @]
          /\ UNCHANGED stuck
       \/ /\ MustGiveBack(t)
          /\ stuck' = stuck \cup {t}
          /\ UNCHANGED conv
    /\ Goto(t, "unload")
    /\ UNCHANGED <<mutex, localeVars, loaded, answer, wanted, raced, unsaved,
                   refused, shown, calls, sets>>

Unload(t) ==
    /\ where[t] = "unload"
    /\ loaded' = [loaded EXCEPT ![t] = {}]
    /\ Goto(t, "relocale")
    /\ UNCHANGED <<mutex, localeVars, conv, answer, history>>

(***************************************************************************)
(* setlocale(LC_ALL, saved_locale), if there is a copy.  Its result is not *)
(* looked at: a setlocale that fails leaves the locale as it is, and the   *)
(* copy is freed all the same.                                             *)
(***************************************************************************)
RestoreLocale(t) ==
    /\ where[t] = "relocale"
    /\ \/ /\ locale' = IF saved[t] = "NULL" THEN locale ELSE saved[t]
          /\ UNCHANGED refused
       \/ /\ saved[t] # "NULL"
          /\ refused' = TRUE
          /\ UNCHANGED locale
    /\ saved' = [saved EXCEPT ![t] = "NULL"]
    /\ Goto(t, "unlock")
    /\ UNCHANGED <<mutex, loaded, conv, answer, wanted, raced, unsaved, stuck,
                   shown, calls, sets>>

ReleaseMutex(t) == mutex' = "nobody"

Unlock(t) ==
    /\ where[t] = "unlock"
    /\ ReleaseMutex(t)
    /\ Goto(t, "idle")
    /\ UNCHANGED <<localeVars, loaded, conv, answer, history>>

-----------------------------------------------------------------------------
Setup(t) ==
    \/ CheckModule(t)
    \/ Lock(t)
    \/ SaveLocale(t)
    \/ ToEnglish(t)
    \/ LoadPam(t)
    \/ LoadModule(t)
    \/ ReplaceConversation(t)

Cleanup(t) ==
    \/ GiveBackConversation(t)
    \/ Unload(t)
    \/ RestoreLocale(t)
    \/ Unlock(t)

Proceed(t) == Setup(t) \/ EntryReturns(t) \/ Cleanup(t)

AllReturned ==
    /\ calls = MaxCalls
    /\ sets = MaxSets
    /\ \A t \in Threads : where[t] = "idle"
    /\ UNCHANGED pamVars

PamNext ==
    \/ \E t \in Threads : Call(t) \/ Ask(t) \/ Proceed(t)
    \/ \E l \in Locales : SetLocale(l)
    \/ AllReturned

PamSpec == PamInit /\ [][PamNext]_pamVars
-----------------------------------------------------------------------------
(* What the application relies on.                                         *)

(***************************************************************************)
(* While no call holds the lock the process has the locale the application *)
(* set last, however calls of several threads were interleaved and         *)
(* wherever they failed, with three exceptions.  The wrapper undoes a      *)
(* change that the application makes during a call; and where a call had   *)
(* no memory to save the locale, or setlocale failed to restore it, the    *)
(* process may be left in "C", and in no other locale.                     *)
(***************************************************************************)
LocaleReturned ==
    (mutex = "nobody" /\ ~raced) =>
        locale = wanted \/ ((unsaved \/ refused) /\ locale = "C")

(***************************************************************************)
(* The conversation of a handle is the proxy of a call only while that     *)
(* call runs: nobody follows a pointer into a stack frame that is gone.    *)
(* The exception is a pam_set_item that failed to take the original back,  *)
(* which call_real does not look at.                                       *)
(***************************************************************************)
NoProxyOutlivesCall ==
    \A t \in Threads :
        conv[t] # "app" =>
            /\ conv[t] = t
            /\ t \in stuck \/ where[t] \in {"entry", "giveBack"}

(***************************************************************************)
(* Of the prompts that name a finger only a thumb's, which the proxy does  *)
(* not recognise, reaches the application: during a call the real module   *)
(* speaks the language the proxy reads, although other calls begin and end *)
(* meanwhile, unless the application sets a locale.                        *)
(***************************************************************************)
OnlyThumbsAreNamed ==
    sets = 0 => shown \subseteq {"generic", "thumb"}

(***************************************************************************)
(* The comment in call_real: the placement sentence is replaced by a       *)
(* generic prompt for any enrolled finger.  The code does not do it:       *)
(* MCPamProxyThumb.cfg shows a thumb's prompt that is passed on.           *)
(***************************************************************************)
AnyFingerIsGeneric ==
    sets = 0 => shown \subseteq {"generic"}
=============================================================================
