SPECIFICATION Spec
CONSTANTS
    item = item
    tag = tag
    ping = ping
    catalog = catalog
    empty = empty
    t1 = t1
    t2 = t2
    open = open
    narrow = narrow
    Importer = Importer
    Absent = Absent
    Unbuilt = Unbuilt
    Tools <- MCTools
    Groups <- MCGroups
    Labels <- MCLabels
    Under <- MCUnder
    Bundles <- MCBundles
    Manual = {ping, tag}
    Discovered = {item}
    Threads = {t1, t2}
    Routes = {open, narrow}
    Elsewhere <- MCElsewhere
    Settings <- MCWildSettings
INVARIANT
    NoUnfilteredWindow
