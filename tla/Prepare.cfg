SPECIFICATION Spec
CONSTANTS
    Compositions <- MCCompositions
    Manifest <- MCManifest
    EnvBuilders <- MCEnvBuilders
    HalvesDown <- MCHalvesDown
    Images = {"image0", "image1", "image2", "image3", "image4", "image5"}
    BuildFaults = TRUE
INVARIANTS ArtifactFits InputFits PrepareOnce
CHECK_DEADLOCK FALSE
