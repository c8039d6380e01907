SPECIFICATION Spec
CONSTANTS
    None = none
    small = small
    large = large
    script = script
    trainlog = trainlog
    curve = curve
    weights = weights
    py = py
    Contents <- MCContents
    Large = {large}
    Globs = {py}
    Matches <- MCMatches
    Ignored = {weights}
    Quoted = {curve}
    MaxRewritten = 1
    Files = {script, trainlog, curve, weights}
    CodeDirs = {trainlog, curve}
PROPERTY NothingLeftBehind
