------------------------------- MODULE GLObjects -------------------------------
(***************************************************************************)
(* The C++ objects of src/graphics that own objects of OpenGL: textures,   *)
(* geometries, shaders and the stages they are linked from, uniform        *)
(* buffers, and layers with their framebuffers.  OpenGL knows its objects  *)
(* by names, which are external: one that is in use is not handed out.     *)
(*                                                                         *)
(* A Geometry's three names and a Layer's two are made and deleted         *)
(* together, and are one here.  What a constructor calls before it looks   *)
(* for errors may have failed, and then it throws.  A client neither draws *)
(* nor fills what it has moved from.                                       *)
(***************************************************************************)
EXTENDS Integers, FiniteSets

CONSTANTS
    Names,          \* the names OpenGL may use
    Free(_),        \* those it may hand out while it uses others
    Objects,        \* the objects that a program may make
    Members,        \* those of them that the window makes for itself
    Kind,           \* of each object
    None, Gone,     \* there is no object; what it owned is another's (-1)
    MaxObjects,     \* bound: the objects of a client at a time
    MaxVertices     \* bound: how often a geometry is added to

Kinds == {"texture", "geometry", "shader", "stage", "buffer", "layer"}

ASSUME ObjectAssumption ==
    /\ \A used \in SUBSET Names : Free(used) \subseteq Names \ used
    /\ None \notin Names /\ Gone \notin Names /\ None # Gone
    /\ Kind \in [Objects -> Kinds] /\ Members \subseteq Objects
    /\ \A o \in Members : Kind[o] \in {"geometry", "shader", "buffer"}
    /\ MaxVertices \in Nat \ {0} /\ MaxObjects \in Nat

VARIABLES
    open,           \* the window exists, and with it a context
    object,         \* the name each object owns
    names,          \* the names OpenGL uses
    vertices,       \* what was put into a geometry: how often
    uploaded        \* what the buffers of a name hold, if it is a geometry's

object_vars == <<open, object, names, vertices, uploaded>>

Owners == {o \in Objects : object[o] \in Names}

-------------------------------------------------------------------------------
(* The window makes a context, and its members in it.  A constructor that  *)
(* throws leaves the context to nobody, and is left out.                   *)
OpenWindow ==
    /\ ~open
    /\ open' = TRUE
    /\ \E f \in [Members -> Free(names)] :
          /\ \A m, n \in Members : f[m] = f[n] => m = n
          /\ object' = [o \in Objects |-> IF o \in Members THEN f[o] ELSE object[o]]
          /\ names' = {f[m] : m \in Members}
          /\ uploaded' = [n \in Names |-> 0]
    /\ vertices' = [o \in Objects |-> 0]

(* A client has destroyed what it made, for a texture names its window.    *)
(* The context goes first and the members follow it: what they delete is   *)
(* no more.                                                                *)
CloseWindow ==
    /\ open /\ \A o \in Objects \ Members : object[o] = None
    /\ open' = FALSE
    /\ object' = [o \in Objects |-> None]
    /\ names' = {}
    /\ vertices' = [o \in Objects |-> 0]
    /\ uploaded' = [n \in Names |-> 0]

-------------------------------------------------------------------------------
(* glGen..., or glCreate..., into o, whose geometry is v and whose buffers *)
(* are filled with b.  When the constructor throws there is no o, whose    *)
(* destructor could delete the name.                                       *)
Generate(o, v, b, throws) ==
    \E n \in Free(names) :
        /\ names' = names \cup {n}
        /\ object' = [object EXCEPT ![o] = IF throws THEN None ELSE n]
        /\ uploaded' = [uploaded EXCEPT ![n] = IF throws THEN 0 ELSE b]
        /\ vertices' = [vertices EXCEPT ![o] = IF throws THEN 0 ELSE v]
        /\ UNCHANGED open

CanMake(o) ==
    /\ open /\ o \in Objects \ Members /\ object[o] = None
    /\ Cardinality({x \in Objects \ Members : object[x] # None}) < MaxObjects

(* UniformBuffer alone does not look for errors. *)
MayThrow(o) == IF Kind[o] = "buffer" THEN {FALSE} ELSE BOOLEAN

(* from nothing, a geometry from the vertices it is given: init(true) *)
Make(o, v) ==
    /\ CanMake(o)
    /\ Kind[o] # "geometry" => v = 0
    /\ \E throws \in MayThrow(o) : Generate(o, v, v, throws)

(* from a path: init(false), and triangulate updates the buffers *)
FromPath(o) ==
    /\ CanMake(o) /\ Kind[o] = "geometry"
    /\ \E throws \in BOOLEAN : Generate(o, 1, 1, throws)

(* Both copy constructors call another, but Texture's then draws, and may  *)
(* throw, with an object whose destructor runs; it does when there is no   *)
(* texture to draw.                                                        *)
CopyGeometry(o, other) ==
    /\ CanMake(o) /\ Kind[o] = "geometry" /\ Kind[other] = "geometry" /\ object[other] # None
    /\ \E throws \in BOOLEAN : Generate(o, vertices[other], vertices[other], throws)

CopyTexture(o, other) ==
    /\ CanMake(o) /\ Kind[o] = "texture" /\ Kind[other] = "texture" /\ object[other] # None
    /\ \/ object[other] # Gone /\ Generate(o, 0, 0, FALSE)
       \/ Generate(o, 0, 0, TRUE)
       \/ UNCHANGED object_vars

(* mutant of Move: the other object keeps the name *)
Move_Keeps(o, other) ==
    /\ CanMake(o) /\ object[other] # None
    /\ Kind[other] = Kind[o] /\ Kind[o] # "stage" /\ other \notin Members
    /\ object' = [object EXCEPT ![o] = object[other]]
    /\ vertices' = [vertices EXCEPT ![o] = vertices[other]]
    /\ UNCHANGED <<open, names, uploaded>>

(* The move constructors; a layer's is the default one, which leaves both  *)
(* with the framebuffers.  A geometry's copies the vertices.               *)
Move(o, other) ==
    /\ CanMake(o) /\ object[other] # None
    /\ Kind[other] = Kind[o] /\ Kind[o] # "stage" /\ other \notin Members
    /\ object' = [object EXCEPT ![o] = object[other],
                                ![other] = IF Kind[o] = "layer" THEN @ ELSE Gone]
    /\ vertices' = [vertices EXCEPT ![o] = vertices[other]]
    /\ UNCHANGED <<open, names, uploaded>>

(* Shader's move assignment takes over the program, also from itself, and  *)
(* leaves the one it had                                                   *)
Assign(o, other) ==
    /\ open /\ Kind[o] = "shader" /\ Kind[other] = "shader" /\ {o, other} \cap Members = {}
    /\ object[o] # None /\ object[other] # None
    /\ object' = [[object EXCEPT ![o] = object[other]] EXCEPT ![other] = Gone]
    /\ UNCHANGED <<open, names, vertices, uploaded>>

(* mutant of Deletes: a geometry's destructor looks at another name *)
Deletes_NotGeometry(o) == object[o] # Gone /\ Kind[o] \notin {"layer", "geometry"}

(* the destructors; a layer has none *)
Deletes(o) == object[o] # Gone /\ Kind[o] # "layer"

Destroy(o) ==
    /\ open /\ o \in Objects \ Members /\ object[o] # None
    /\ names' = IF Deletes(o) THEN names \ {object[o]} ELSE names
    /\ object' = [object EXCEPT ![o] = None]
    /\ uploaded' = [n \in Names |-> IF n = object[o] /\ Deletes(o) THEN 0 ELSE uploaded[n]]
    /\ vertices' = [vertices EXCEPT ![o] = 0]
    /\ UNCHANGED open

(* triangulate adds to a geometry and ends with update_buffers *)
Triangulated(o) ==
    /\ Kind[o] = "geometry" /\ o \in Owners /\ vertices[o] < MaxVertices
    /\ vertices' = [vertices EXCEPT ![o] = @ + 1]
    /\ uploaded' = [uploaded EXCEPT ![object[o]] = vertices[o] + 1]
    /\ UNCHANGED <<open, object, names>>

ObjectsInit ==
    /\ open = FALSE /\ names = {}
    /\ object = [o \in Objects |-> None]
    /\ vertices = [o \in Objects |-> 0]
    /\ uploaded = [n \in Names |-> 0]

ObjectsNext ==
    \/ OpenWindow \/ CloseWindow
    \/ \E o \in Objects :
          \/ \E v \in {0, 1} : Make(o, v)
          \/ FromPath(o) \/ Destroy(o) \/ Triangulated(o)
    \/ \E o, other \in Objects :
          \/ CopyGeometry(o, other) \/ CopyTexture(o, other)
          \/ Move(o, other) \/ Assign(o, other)

ObjectsSpec == ObjectsInit /\ [][ObjectsNext]_object_vars

-------------------------------------------------------------------------------
(* Properties *)

(* However objects are copied, moved, assigned and destroyed, and whichever *)
(* constructor throws: a name has one object that will delete it, what an   *)
(* object owns is there, and the buffers of a geometry hold what was put    *)
(* into it, whoever of its copies was added to.                             *)
NamesOwned ==
    /\ \A o \in Owners : object[o] \in names
    /\ \A o, other \in Owners :
          object[o] = object[other] /\ Kind[o] # "layer" => o = other
    /\ \A o \in Owners : Kind[o] = "geometry" => uploaded[object[o]] = vertices[o]

(* A name is lost only when a constructor throws, a shader is assigned to,  *)
(* or a layer with it is destroyed; and never again.                        *)
Kept == {object[o] : o \in Owners}
Excused(n) ==
    \/ n \in names \ Kept
    \/ n \notin names /\ object' = object
    \/ \E o \in Owners : /\ object[o] = n
                         /\ \/ Kind[o] = "layer" /\ object'[o] = None
                            \/ Kind[o] = "shader" /\ object'[o] # None
NothingLost == [][\A n \in names \cup names' : n \in names' \ Kept' => Excused(n)]_object_vars
===============================================================================
