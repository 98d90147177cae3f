------------------------------ MODULE Surfaces ------------------------------
(***************************************************************************)
(* rtv_probe.cpp: the wrappers of the driver's surfaces live in the arena,  *)
(* the surfaces and their reference counts outside it.  A rollback brings   *)
(* back a wrapper without the reference it had released, so the handles     *)
(* are put in order around the load, and a replayed destruction releases    *)
(* only what was acquired in the same replay.                               *)
(*                                                                         *)
(* For RTV and DSV wrappers; textures, and the optional set of epochs, are  *)
(* left out.  A destroyed wrapper's word at +0x20 is taken to be zero.      *)
(***************************************************************************)
EXTENDS FrameClock, FiniteSets

CONSTANTS
  Wrappers,      \* addresses of wrappers in the arena
  Handles,       \* addresses of surfaces; one with no reference may be used again
  DeathsMax,     \* entries of g_destroyed
  SurfaceSlots,  \* frames the arena's ring holds
  MaxViews,      \* bound of the model: constructions
  Null           \* a wrapper with no surface
CONSTANT Absent  \* no wrapper at this address

ASSUME SurfaceAssumption ==
  /\ IsFiniteSet(Wrappers) /\ IsFiniteSet(Handles)
  /\ {DeathsMax, SurfaceSlots, MaxViews} \subseteq Nat /\ SurfaceSlots > MaxDepth
  /\ {Null, Absent} \cap Handles = {} /\ Null # Absent

VARIABLES
  surface,     \* per address: the handle at +0x20 of the wrapper there
  references,  \* per handle: the driver's count
  known,       \* g_reg
  destroyed,   \* g_destroyed
  ctorset,     \* g_ctorset
  views,       \* per saved frame: the wrappers;
               \* lost: ghost, wrappers that died since and are in g_destroyed no more
  made,        \* constructions so far
  forgotten    \* ghost: a rollback brought such a wrapper back

surfaceVars == <<surface, references, known, destroyed, ctorset, views, made, forgotten>>

SurfaceInit ==
  /\ surface = [w \in Wrappers |-> Absent] /\ references = [h \in Handles |-> 0]
  /\ known = {} /\ destroyed = {} /\ ctorset = {} /\ views = <<>>
  /\ made = 0 /\ forgotten = FALSE

Resim    == at # Live
Users(h) == {w \in Wrappers : surface[w] = h}
Lost(ws) == [f \in DOMAIN views |-> [views[f] EXCEPT !.lost = @ \cup ws]]

----------------------------------------------------------------------------
(* The game.                                                                *)

(* on_ctor, behind the engine's constructors: one that makes a surface, at  *)
(* an address the driver may have used before, and one that shares another's. *)
Constructed(w, h) ==
  /\ surface[w] = Absent /\ made < MaxViews /\ made' = made + 1
  /\ surface' = [surface EXCEPT ![w] = h]
  /\ references' = [references EXCEPT ![h] = @ + 1]
  /\ known' = known \cup {w} /\ destroyed' = destroyed \ {w}
  /\ views' = Lost(destroyed \cap {w})
  /\ ctorset' = IF Resim THEN ctorset \cup {w} ELSE ctorset
  /\ UNCHANGED forgotten

CreateSurface(w, h) == references[h] = 0 /\ Constructed(w, h)
WrapSurface(w, h)   == references[h] > 0 /\ Users(h) # {} /\ Constructed(w, h)

(* surf_husk, at its best: a handle whose surface is gone and whose address *)
(* nothing uses.                                                            *)
Husk(h) == h \in Handles /\ references[h] = 0

MutantSuppressed(w) == Husk(surface[w])

(* view_dtor_decide: +0x20 is zeroed first, so that nothing is released.    *)
Suppressed(w) ==
  \/ Resim /\ surface[w] # Null /\ w \notin ctorset
  \/ Husk(surface[w])

(* A death of a replayed frame is not recorded.                             *)
Died(w) ==
  IF Resim THEN UNCHANGED <<destroyed, known, views>>
  ELSE /\ known' = known \ {w}
       /\ IF Cardinality(destroyed) < DeathsMax
          THEN destroyed' = destroyed \cup {w} /\ UNCHANGED views
          ELSE views' = Lost({w}) /\ UNCHANGED destroyed

(* hk_rtv_dtor, hk_dsv_dtor                                                 *)
DestroyView(w) ==
  /\ surface[w] # Absent
  /\ references' = IF surface[w] = Null \/ Suppressed(w) THEN references
                   ELSE [references EXCEPT ![surface[w]] = @ - 1]
  /\ surface' = [surface EXCEPT ![w] = Absent]
  /\ Died(w)
  /\ UNCHANGED <<ctorset, made, forgotten>>

(* Nothing is asked of a behaviour in which a death is forgotten.           *)
SurfaceGame ==
  /\ ~forgotten
  /\ \E w \in Wrappers :
       \/ \E h \in Handles : CreateSurface(w, h) \/ WrapSurface(w, h)
       \/ DestroyView(w)

----------------------------------------------------------------------------
(* The frame driver.                                                        *)

(* The save of the frame.                                                   *)
SurfaceFrame ==
  /\ views' = [f \in {g \in DOMAIN views : g > frame - SurfaceSlots} \cup {frame} |->
                 IF f = frame THEN [surface |-> surface, lost |-> {}] ELSE views[f]]
  /\ UNCHANGED <<surface, references, known, destroyed, ctorset, made, forgotten>>

(* preserve_save: the readable handles of the registered wrappers.          *)
Preserved == {w \in known : surface[w] \in Handles /\ ~Husk(surface[w])}

(* preserve_restore, over what the load has brought back: the live handle   *)
(* into a wrapper that had one, nothing into one that has died since.       *)
Severed(loaded) ==
  [w \in Wrappers |->
     CASE loaded[w] = Absent               -> Absent
       [] w \in Preserved                  -> surface[w]
       [] w \in destroyed \ Preserved      -> Null
       [] OTHER                            -> loaded[w]]

(* A rollback; it ends with on_resim_start.                                 *)
SurfaceRollback(target) ==
  /\ target \in DOMAIN views
  /\ surface' = Severed(views[target].surface)
  /\ destroyed' = {} /\ ctorset' = {}
  /\ views' = Lost(destroyed)
  /\ forgotten' = (forgotten \/ \E w \in views[target].lost : surface'[w] = views[target].surface[w]
                                                          /\ surface'[w] \in Handles)
  /\ UNCHANGED <<references, known, made>>

(* capture_baseline empties the arena's ring; nothing of this file changes. *)
SurfaceSwitch ==
  views' = <<>> /\ UNCHANGED <<surface, references, known, destroyed, ctorset, made, forgotten>>
=============================================================================
