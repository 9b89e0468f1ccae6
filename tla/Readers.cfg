\* Every file of five characters, and every map of two names saved and read again;
\* every template of five tokens; SVG texts, path data of four commands, documents
\* of four elements, and headers of four attributes with two shapes.
SPECIFICATION MCSpec
CONSTANTS
    Written <- MCWritten
    Names <- MCNames
    Settings <- MCSettings
    MaxText = 5
    MaxBeside = 0
    MaxFile = 15
    Tokens <- MCTokens
    Arguments <- MCArguments
    MaxTokens = 5
    Pieces <- MCPieces
    MaxPieces <- MCMaxPieces
    Options <- MCOptions
    Coordinates <- MCCoordinates
    Elements <- MCElements
    Placement <- MCPlacement
    Dialects <- MCDialects
    MaxTags = 4
    MaxAttr = 4
    SvgAttributes <- MCSvgAttributes
    Boxes <- MCBoxes
    MaxAttributes = 4
    MaxShapes = 2
    Units = "px"
    Dpi = 96
INVARIANTS FilesRead SettingsRestored TemplatesFilled SvgTextsRead SvgOutlinesExact SvgDocumentsDrawn SvgViewFits
CHECK_DEADLOCK FALSE
