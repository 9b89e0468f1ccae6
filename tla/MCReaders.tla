------------------------------- MODULE MCReaders -------------------------------
(***************************************************************************)
(* The readers of the project side by side: of config files, of templates, *)
(* and the four parts of the reader of SVG files, its texts, its outlines, *)
(* its elements and its view.  Nothing of one is read by another: a        *)
(* behaviour is one of one reader, and the others stay where they began.   *)
(***************************************************************************)
EXTENDS MCConfig, MCTemplate, MCSvgText, MCSvgPath, MCSvg, MCSvgView

VARIABLE reader

svg_reader == <<text_vars, path_vars, svg_vars, view_vars>>

(* where a reader begins, with one choice of each for those that stay      *)
MCInit ==
    /\ reader \in {"config", "template", "text", "path", "svg", "view"}
    /\ Init /\ TemplateInit /\ TextInit /\ PathInit /\ SvgInit /\ ViewInit
    /\ reader = "text" \/ kind = "items"
    /\ reader = "path" \/ element = [el |-> "path"]
    /\ reader = "svg" \/ tags = Groups

ConfigStep == reader = "config" /\ Next /\ UNCHANGED <<tokens, svg_reader>>
TemplateStep == reader = "template" /\ TemplateNext /\ UNCHANGED <<vars, svg_reader>>
SvgTextStep == reader = "text" /\ TextNext /\ UNCHANGED <<vars, tokens, path_vars, svg_vars, view_vars>>
SvgPathStep == reader = "path" /\ PathNext /\ UNCHANGED <<vars, tokens, text_vars, svg_vars, view_vars>>
SvgStep == reader = "svg" /\ SvgNext /\ UNCHANGED <<vars, tokens, text_vars, path_vars, view_vars>>
SvgViewStep == reader = "view" /\ ViewNext /\ UNCHANGED <<vars, tokens, text_vars, path_vars, svg_vars>>

MCNext ==
    /\ \/ ConfigStep \/ TemplateStep
       \/ SvgTextStep \/ SvgPathStep \/ SvgStep \/ SvgViewStep
    /\ UNCHANGED reader
MCSpec == MCInit /\ [][MCNext]_<<reader, vars, tokens, svg_reader>>

(* What is asked of each reader, stated in its own module.  config.cpp     *)
(* loads from a file what it says, and all or nothing of it.               *)
FilesRead == reader = "config" => ReadsReference

(* config.cpp finds what it saved when the program starts again. *)
SettingsRestored == reader = "config" => SavedIsRestored

(* template.c fills in what a template's tokens say, in a block of the     *)
(* right size, and takes and frees each argument once.                     *)
TemplatesFilled == reader = "template" => TemplateRenders

(* nanosvg.c reads numbers, lengths, colours, transforms, styles, dashes   *)
(* and tags as they were meant, whatever is written beside them.           *)
SvgTextsRead == reader = "text" => TextsRead

(* nanosvg.c draws an element's outline as its data says, command by       *)
(* command.                                                                *)
SvgOutlinesExact == reader = "path" => OutlinesExact

(* nanosvg.c draws each shape of a document with the attributes of the     *)
(* elements around it, and comes to the end of the document.               *)
SvgDocumentsDrawn == reader = "svg" => DocumentsDrawn

(* nanosvg.c makes an image of the right size, and puts the view, the      *)
(* shapes and their gradients into their place in it.                      *)
SvgViewFits == reader = "view" => ViewFits
===============================================================================
